---- MODULE Spec2Model ----
\* couchdbkit: the lazy view result (client.py, class ViewResults) and the
\* Database methods that build it, as a state machine over a heap of
\* ViewResults objects; the design-document macros (designer/macros.py) over
\* an application directory; the changes consumers (consumer/) over the events
\* of a call.
EXTENDS Integers, Sequences, FiniteSets, TLC

VARIABLES
    objs,      \* the ViewResults objects created so far; each is its __dict__
    built,     \* built[i]: the parameters object i was constructed with
    ncalls,    \* how often the executors have been invoked; for a Server and
               \* a Database, how many calls have been made on them
    iters,     \* the generators obtained from iterator() / __iter__ that have
               \* not finished
    last,      \* the operation that ran last and how it ended
    fs,        \* the files under app_dir, in the order the directory lists them
    funcs,     \* the function mapping handed to apply_lib: (key, value) items
    digests,   \* the digest table handed to apply_lib (its `objs` argument)
    events,    \* what a call did, in order: for a consumer the changes
               \* request, the changes taken from the feed and the callback
               \* invocations; for a Server or a Database the requests it
               \* sent and the uuids next_uuid returned; for the HTTP session
               \* the records emitted on the couchdbkit.request logger
    srv,       \* the Server object: _uuids, uuid_batch_count, _uuid_batch_count
    couch,     \* the CouchDB node: the uuids it has issued, the revision of
               \* each document of the database
    session    \* ClientSession.request and the request loggers installed

\* the state outside the query layer
extvars == <<fs, funcs, digests, events, srv, couch, session>>

vars ==
    <<objs, built, ncalls, iters, last, fs, funcs, digests, events, srv, couch,
      session>>

-----------------------------------------------------------------------------
\* Bounds of the model.

MaxObjs == 2    \* ViewResults objects created in one run
MaxRows == 2    \* rows in one response
MaxCalls == 2   \* executor invocations in one run after which no further
                \* consumption is started; calls on a Server and a Database
                \* in one run
MaxIters == 1   \* generators alive at one time

-----------------------------------------------------------------------------
\* Python values.  Every value carries its type so that values of different
\* types can be compared: None, int, str, list, tuple, dict, slice, callable,
\* class and schema-wrapped document.

None == <<"None">>
I(n) == <<"int", n>>
S(s) == <<"str", s>>
L(xs) == <<"list", xs>>
T(xs) == <<"tuple", xs>>
D(m) == <<"dict", m>>
F(f) == <<"func", f>>
Slice(a, b) == <<"slice", a, b>>

Tag(v) == v[1]
EmptyDict == D(<<>>)

\* bool(v)
Truthy(v) ==
    CASE Tag(v) = "None" -> FALSE
      [] Tag(v) = "bool" -> v[2]
      [] Tag(v) = "int" -> v[2] # 0
      [] Tag(v) = "str" -> v[2] # <<>>
      [] Tag(v) = "list" -> Len(v[2]) > 0
      [] Tag(v) = "tuple" -> Len(v[2]) > 0
      [] Tag(v) = "dict" -> DOMAIN v[2] # {}
      [] OTHER -> TRUE

\* dict operations: k in d, d.get(k, default), d[k] = v, d.pop(k),
\* dict(d1, **d2)
Has(d, k) == k \in DOMAIN d[2]
Get(d, k, default) == IF Has(d, k) THEN d[2][k] ELSE default
Put(d, k, v) == D((k :> v) @@ d[2])
Pop(d, k) == D([x \in (DOMAIN d[2]) \ {k} |-> d[2][x]])
Merge(d1, d2) == D(d2[2] @@ d1[2])

\* setattr(o, k, v) and delattr(o, k) on an object's __dict__; fetch() swallows
\* the AttributeError of a delattr of an attribute that is not there.
SetAttr(o, k, v) == (k :> v) @@ o
DelAttr(o, k) == IF k \in DOMAIN o THEN [x \in (DOMAIN o) \ {k} |-> o[x]] ELSE o

-----------------------------------------------------------------------------
\* Strings are sequences of tokens: "/" is a token of its own and no other
\* token contains a "/".

B(b) == <<"bool", b>>
KeyStr(k) == S(<<k>>)      \* the str value of a dict key or attribute name
KeyName(v) == v[2][1]

\* str.split('/') and '/'.join(parts) on token sequences
RECURSIVE Split(_)
Split(s) ==
    IF s = <<>> THEN << <<>> >>
    ELSE LET rest == Split(Tail(s))
         IN IF Head(s) = "/" THEN << <<>> >> \o rest
            ELSE << <<Head(s)>> \o Head(rest) >> \o Tail(rest)

RECURSIVE Join(_)
Join(parts) ==
    IF parts = <<>> THEN <<>>
    ELSE IF Len(parts) = 1 THEN Head(parts)
    ELSE Head(parts) \o <<"/">> \o Join(Tail(parts))

\* Database.view: the view path computed from the view name
ViewPath(view_name) ==
    LET name == IF view_name # <<>> /\ Head(view_name) = "/"
                THEN Tail(view_name) ELSE view_name
    IN  IF name = <<"_all_docs">> THEN name
        ELSE IF name = <<"_all_docs_by_seq">> THEN name
        ELSE LET parts == Split(name)
                 dname == Head(parts)
                 vname == Join(Tail(parts))
             IN  <<"_design", "/">> \o dname \o <<"/", "_view", "/">> \o vname

\* Database.search: "/%s/%s" % (handler, view_name)
SearchPath(handler, view_name) == <<"/">> \o handler \o <<"/">> \o view_name

-----------------------------------------------------------------------------
\* Row wrappers.

\* schema.wrap(data): the typed document the schema component builds
SchemaWrap(schema, data) == <<"doc", schema, data>>

\* the row_wrapper closure ViewResults.__init__ builds when a schema is given
SchemaRowWrapper(schema, wrap_doc) == <<"closure", schema, wrap_doc>>

\* the row_wrapper ViewResults.__init__ builds when no schema is given
PlainRowWrapper == F("row_wrapper")

\* a caller-supplied wrapper: lambda row: row.get('doc')
GetDocWrapper == F("get_doc")

\* wrapper(row): the wrapped value, and the row as the call leaves it (the
\* schema row wrapper writes _id/_rev into the row's value in place)
WrapRow(w, row) ==
    IF w = PlainRowWrapper THEN [exc |-> "", res |-> row, row |-> row]
    ELSE IF w = GetDocWrapper
    THEN [exc |-> "", res |-> Get(row, "doc", None), row |-> row]
    ELSE IF Tag(w) = "closure"
    THEN LET schema == w[2]
             wrap_doc == w[3]
             data == Get(row, "value", None)
             docid == Get(row, "id", None)
             doc == Get(row, "doc", None)
         IN  IF doc # None /\ Truthy(wrap_doc)
             THEN [exc |-> "", res |-> SchemaWrap(schema, doc), row |-> row]
             ELSE IF ~Truthy(data) \/ data = None
             THEN [exc |-> "", res |-> row, row |-> row]
             ELSE IF Tag(data) # "dict" \/ ~Truthy(docid)
             THEN [exc |-> "", res |-> row, row |-> row]
             ELSE LET d1 == Put(data, "_id", docid)
                      d2 == IF Has(d1, "rev")
                            THEN Put(Pop(d1, "rev"), "_rev", d1[2]["rev"])
                            ELSE d1
                  IN  [exc |-> "", res |-> SchemaWrap(schema, d2),
                       row |-> Put(row, "value", d2)]
    ELSE [exc |-> "TypeError", res |-> None, row |-> row]

\* [wrapper(row) for row in rows]
RECURSIVE WrapRows(_, _)
WrapRows(w, rows) ==
    IF rows = <<>> THEN [exc |-> "", res |-> <<>>, rows |-> <<>>]
    ELSE LET h == WrapRow(w, Head(rows))
         IN  IF h.exc # "" THEN [exc |-> h.exc, res |-> <<>>, rows |-> rows]
             ELSE LET t == WrapRows(w, Tail(rows))
                  IN  [exc |-> t.exc, res |-> <<h.res>> \o t.res,
                       rows |-> <<h.row>> \o t.rows]

-----------------------------------------------------------------------------
\* ViewResults.__init__

\* the body of __init__ after its assertion: the attributes it sets
NewViewResults(fetch, arg, wrapper, schema, params) ==
    LET wrap_doc == Get(params, "wrap_doc", B(schema # None))
        row_wrapper == IF Truthy(schema)
                       THEN SchemaRowWrapper(schema, wrap_doc)
                       ELSE PlainRowWrapper
    IN  [_fetch |-> fetch,
         _arg |-> arg,
         wrapper |-> IF Truthy(wrapper) THEN wrapper ELSE row_wrapper,
         params |-> IF Truthy(params) THEN params ELSE EmptyDict,
         _result_cache |-> None,
         _total_rows |-> None,
         _offset |-> I(0),
         _dynamic_keys |-> L(<<>>)]

\* __init__ with `assert not (wrapper is not None and schema is not None)`
ViewResultsInitNotNone(fetch, arg, wrapper, schema, params) ==
    IF wrapper # None /\ schema # None
    THEN [exc |-> "AssertionError", obj |-> <<>>]
    ELSE [exc |-> "",
          obj |-> NewViewResults(fetch, arg, wrapper, schema, params)]

\* __init__: assert not (wrapper and schema), then the attributes
ViewResultsInit(fetch, arg, wrapper, schema, params) ==
    IF Truthy(wrapper) /\ Truthy(schema)
    THEN [exc |-> "AssertionError", obj |-> <<>>]
    ELSE [exc |-> "",
          obj |-> NewViewResults(fetch, arg, wrapper, schema, params)]

-----------------------------------------------------------------------------
\* The executors Database hands to ViewResults, and what they answer.

RawView == F("raw_view")
RawTempView == F("raw_temp_view")

\* An executor call ends with a decoded body or with the HTTP layer raising.
RequestFailed == <<"raise", "RequestFailed">>
NoOutcome == <<"unused">>

\* self._fetch(self._arg, self.params): raw_view pops `keys` out of the
\* mapping it is handed (and posts them); raw_temp_view only reads it.
\* The mapping is the object's own `params`, so the pop shows on the object.
ParamsAfterCall(fetch, params) ==
    IF fetch = RawView /\ Has(params, "keys") THEN Pop(params, "keys")
    ELSE params

\* The order in which a decoded body lists its top-level keys.
KeyOrder == <<"total_rows", "offset", "etag", "q", "params", "wrapper", "rows">>

RECURSIVE KeysOf(_, _)
KeysOf(d, order) ==
    IF order = <<>> THEN <<>>
    ELSE IF Has(d, Head(order)) THEN <<Head(order)>> \o KeysOf(d, Tail(order))
    ELSE KeysOf(d, Tail(order))

-----------------------------------------------------------------------------
\* ViewResults.fetch

\* fetch() without its first loop: what was attached stays attached
KeepDynamicKeys(o, keys) == o

\* for key in self._dynamic_keys: try: delattr(self, key) except: pass
RECURSIVE ResetDynamicKeys(_, _)
ResetDynamicKeys(o, keys) ==
    IF keys = <<>> THEN o
    ELSE ResetDynamicKeys(DelAttr(o, KeyName(Head(keys))), Tail(keys))

\* for key in self._result_cache.keys(): if key not in [...]: append, setattr
RECURSIVE AttachDynamicKeys(_, _)
AttachDynamicKeys(o, keys) ==
    IF keys = <<>> THEN [exc |-> "", obj |-> o]
    ELSE IF Head(keys) \in {"total_rows", "offset", "rows"}
    THEN AttachDynamicKeys(o, Tail(keys))
    ELSE IF Tag(o["_dynamic_keys"]) # "list"
    THEN [exc |-> "AttributeError", obj |-> o]
    ELSE LET o1 == [o EXCEPT !["_dynamic_keys"] =
                        L(Append(@[2], KeyStr(Head(keys))))]
         IN  IF Tag(o1["_result_cache"]) # "dict"
             THEN [exc |-> "TypeError", obj |-> o1]
             ELSE IF ~Has(o1["_result_cache"], Head(keys))
             THEN [exc |-> "KeyError", obj |-> o1]
             ELSE AttachDynamicKeys(
                      SetAttr(o1, Head(keys), o1["_result_cache"][2][Head(keys)]),
                      Tail(keys))

\* fetch(): the object afterwards, the exception that left it ("" for none)
\* and the number of executor invocations
FetchOp(o, out) ==
    LET o1 == [ResetDynamicKeys(o, o["_dynamic_keys"][2])
                  EXCEPT !["_dynamic_keys"] = L(<<>>)]
        o2 == [o1 EXCEPT !["params"] = ParamsAfterCall(o1["_fetch"], @)]
    IN  IF "params" \notin DOMAIN o1
        THEN [exc |-> "AttributeError", obj |-> o1, n |-> 0]
        ELSE IF out = RequestFailed
        THEN [exc |-> "RequestFailed", obj |-> o2, n |-> 1]
        ELSE LET o3 == [o2 EXCEPT !["_result_cache"] = out]
             IN  IF Tag(out) # "dict"
                 THEN [exc |-> "AssertionError", obj |-> o3, n |-> 1]
                 ELSE LET o4 == [o3 EXCEPT
                                   !["_total_rows"] = Get(out, "total_rows", None),
                                   !["_offset"] = Get(out, "offset", I(0))]
                          a == AttachDynamicKeys(o4, KeysOf(out, KeyOrder))
                      IN  [exc |-> a.exc, obj |-> a.obj, n |-> 1]

\* _fetch_if_needed()
NeedsFetch(o) == ~Truthy(o["_result_cache"])

FetchIfNeeded(o, out) ==
    IF NeedsFetch(o) THEN FetchOp(o, out)
    ELSE [exc |-> "", obj |-> o, n |-> 0]

\* self._result_cache.get('rows', [])
CachedRows(o) ==
    IF Tag(o["_result_cache"]) # "dict"
    THEN [exc |-> "AttributeError", rows |-> <<>>]
    ELSE [exc |-> "", rows |-> Get(o["_result_cache"], "rows", L(<<>>))[2]]

\* the rows the wrappers have written to, put back into the cached body
WithRows(o, rows) ==
    IF Tag(o["_result_cache"]) = "dict" /\ Has(o["_result_cache"], "rows")
    THEN [o EXCEPT !["_result_cache"] = Put(@, "rows", L(rows))]
    ELSE o

\* count()
CountOp(o, out) ==
    LET f == FetchIfNeeded(o, out)
        c == CachedRows(f.obj)
    IN  IF f.exc # "" THEN [exc |-> f.exc, obj |-> f.obj, n |-> f.n, val |-> None]
        ELSE IF c.exc # ""
        THEN [exc |-> c.exc, obj |-> f.obj, n |-> f.n, val |-> None]
        ELSE [exc |-> "", obj |-> f.obj, n |-> f.n, val |-> I(Len(c.rows))]

\* list(self.iterator()): the generator run to its end
DrainOp(o, out) ==
    LET f == FetchIfNeeded(o, out)
        c == CachedRows(f.obj)
        w == WrapRows(f.obj["wrapper"], c.rows)
    IN  IF f.exc # "" THEN [exc |-> f.exc, obj |-> f.obj, n |-> f.n, val |-> None]
        ELSE IF c.exc # ""
        THEN [exc |-> c.exc, obj |-> f.obj, n |-> f.n, val |-> None]
        ELSE [exc |-> w.exc, obj |-> WithRows(f.obj, w.rows), n |-> f.n,
              val |-> IF w.exc = "" THEN L(w.res) ELSE None]

-----------------------------------------------------------------------------
\* Inputs: rows, decoded bodies, parameters, wrappers, schemas, keys.

Rep(n) == [k \in 1..n |-> "x"]

\* row n of a view: odd rows carry no doc, even rows carry one
Row(n) ==
    IF n % 2 = 1
    THEN D([id |-> S(Rep(n)), key |-> I(n), value |-> I(n)])
    ELSE D([id |-> S(Rep(n)), key |-> I(n),
            value |-> D([rev |-> S(<<"1-a">>)]),
            doc |-> D([_id |-> S(Rep(n))])])

RowList(n) == [k \in 1..n |-> Row(k)]

\* a decoded body: n rows (no `rows` at all for n = -1) and the keys of `meta`
Body(n, meta) ==
    D(IF n < 0 THEN meta ELSE ("rows" :> L(RowList(n))) @@ meta)

Metas ==
    { <<>>,
      [total_rows |-> I(0), etag |-> I(1)],
      [total_rows |-> I(100), offset |-> I(10)],
      [total_rows |-> None, offset |-> None, etag |-> I(2), q |-> I(1)] }

Bodies == { Body(n, meta) : n \in (-1)..MaxRows, meta \in Metas }

\* what one executor invocation can end with: a decoded mapping, a decoded
\* list, or the HTTP layer raising
Outcomes == Bodies \cup {RequestFailed, L(<<I(1)>>)}

FewOutcomes ==
    { Body(-1, <<>>), Body(1, [total_rows |-> I(100), etag |-> I(1)]) }

OneOutcome == { Body(1, <<>>) }

\* the outcomes of the invocation a consumption makes, if it makes one
Needed(o, outs) == IF NeedsFetch(o) THEN outs ELSE {NoOutcome}

ParamSets ==
    { EmptyDict,
      D([startkey |-> I(0), endkey |-> I(9)]),
      D([keys |-> L(<<I(1), I(2)>>), limit |-> I(1)]) }

Overrides ==
    { EmptyDict,
      D([limit |-> I(2), startkey |-> I(3)]),
      D([keys |-> L(<<I(2)>>), skip |-> I(1)]) }

Bounds == {None, I(1)}

IndexKeys ==
    { Slice(a, b) : a \in Bounds, b \in Bounds }
        \cup { L(<<I(1), I(2)>>), T(<<I(3)>>), I(1) }

DocSchema == <<"class", "Doc">>
WrapperArgs == {None, GetDocWrapper}
SchemaArgs == {None, DocSchema, EmptyDict}

\* (wrapper, schema, params) of a call that builds a query: every pairing of
\* wrapper and schema, and every parameter set
BuildArgs ==
    { <<wrapper, schema, EmptyDict>> :
          wrapper \in WrapperArgs, schema \in SchemaArgs }
        \cup { <<None, None, params>> : params \in ParamSets }

\* the plain call, and the call that passes a wrapper and a schema
PlainArgs == { <<None, None, EmptyDict>>, <<GetDocWrapper, DocSchema, EmptyDict>> }

ViewNames == { <<"d", "/", "v">>, <<"/", "_all_docs">>, <<"_all_docs_by_seq">> }

\* (view_name, args) of the calls of Database.view
ViewCalls ==
    { <<<<"d", "/", "v">>, a>> : a \in BuildArgs }
        \cup { <<view_name, <<None, None, EmptyDict>>>> : view_name \in ViewNames }

-----------------------------------------------------------------------------
\* Operations.

Obj(i) == objs[i]
IsObj(i) == i \in 1..Len(objs)
CanRun(i) == IsObj(i) /\ ncalls < MaxCalls

\* what the caller of an operation sees of it: the object it derived from (0
\* unless it derives one), the exception or the value it ended with, the
\* executor invocations it made, and its argument
Done(op, from, exc, val, inv, arg) ==
    last' = [op |-> op, from |-> from, exc |-> exc, val |-> val, inv |-> inv,
             arg |-> arg]

\* _result_cache was assigned during an operation that made inv invocations
\* and ended with exc: every invocation but a failed one assigns it, and a
\* failed one ends the operation
Assigned(inv, exc) == inv >= 1 /\ ~(inv = 1 /\ exc = "RequestFailed")

\* a running generator reads the list it took from the cache; once the cache
\* is assigned again it is the only holder of that list
Unlink(it, i, inv, exc) ==
    IF it.obj = i /\ it.linked /\ Assigned(inv, exc)
    THEN [it EXCEPT !.linked = FALSE, !.rows = CachedRows(objs[i]).rows]
    ELSE it

\* an operation on object i that leaves it as o after inv executor invocations
Finish(op, i, o, exc, val, inv, arg) ==
    /\ objs' = [objs EXCEPT ![i] = o]
    /\ ncalls' = ncalls + inv
    /\ iters' = [k \in DOMAIN iters |-> Unlink(iters[k], i, inv, exc)]
    /\ Done(op, 0, exc, val, inv, arg)
    /\ UNCHANGED <<built, extvars>>

\* ViewResults(fetch, arg, wrapper, schema, params), reached through `op` on
\* behalf of object i (0 for a call of a Database method)
Construct(op, i, fetch, arg, wrapper, schema, params, key) ==
    LET r == ViewResultsInit(fetch, arg, wrapper, schema, params)
    IN  /\ Len(objs) < MaxObjs
        /\ IF r.exc # ""
           THEN /\ UNCHANGED <<objs, built>>
                /\ Done(op, i, r.exc, None, 0, key)
           ELSE /\ objs' = Append(objs, r.obj)
                /\ built' = Append(built, params)
                /\ Done(op, i, "", I(Len(objs) + 1), 0, key)
        /\ UNCHANGED <<ncalls, iters, extvars>>

\* Database.view(view_name, schema, wrapper, **params)
View(calls) ==
    \E c \in calls :
        Construct("view", 0, RawView, S(ViewPath(c[1])), c[2][1], c[2][2],
                  c[2][3], T(<<c[2][1], c[2][2]>>))

\* Database.temp_view(design, schema, wrapper, **params)
TempDesign == D([map |-> S(<<"function">>)])

TempView(args) ==
    \E a \in args :
        Construct("temp_view", 0, RawTempView, TempDesign,
                  a[1], a[2], a[3], T(<<a[1], a[2]>>))

\* Database.search(view_name, handler, wrapper, schema, **params)
Search(args) ==
    \E a \in args :
        Construct("search", 0, RawView,
                  S(SearchPath(<<"_fti", "/", "_design">>, <<"d", "/", "v">>)),
                  a[1], a[2], a[3], T(<<a[1], a[2]>>))

\* Database.documents(schema, wrapper, **params)
Documents(args) ==
    \E a \in args :
        Construct("documents", 0, RawView, S(<<"_all_docs">>), a[1], a[2], a[3],
                  T(<<a[1], a[2]>>))

\* __getitem__ that copies a slice's bounds without looking at them
GetItemParamsUnguarded(params, key) ==
    IF Tag(key) = "slice"
    THEN Put(Put(params, "startkey", key[2]), "endkey", key[3])
    ELSE IF Tag(key) \in {"list", "tuple"} THEN Put(params, "keys", key)
    ELSE Put(params, "key", key)

\* ViewResults.__getitem__(key)
GetItemParams(params, key) ==
    IF Tag(key) = "slice"
    THEN LET p1 == IF key[2] # None THEN Put(params, "startkey", key[2])
                   ELSE params
         IN  IF key[3] # None THEN Put(p1, "endkey", key[3]) ELSE p1
    ELSE IF Tag(key) \in {"list", "tuple"} THEN Put(params, "keys", key)
    ELSE Put(params, "key", key)

\* __getitem__ that does not hand its wrapper on
GetItemPlain(i, keys) ==
    /\ IsObj(i)
    /\ \E key \in keys :
         Construct("__getitem__", i, Obj(i)["_fetch"], Obj(i)["_arg"], None,
                   None, GetItemParams(Obj(i)["params"], key), key)

GetItem(i, keys) ==
    /\ IsObj(i)
    /\ \E key \in keys :
         Construct("__getitem__", i, Obj(i)["_fetch"], Obj(i)["_arg"],
                   Obj(i)["wrapper"], None,
                   GetItemParams(Obj(i)["params"], key), key)

\* ViewResults.__call__(**newparams)
CallParams(params, newparams) == Merge(params, newparams)

Call(i, overrides) ==
    /\ IsObj(i)
    /\ \E newparams \in overrides :
         Construct("__call__", i, Obj(i)["_fetch"], Obj(i)["_arg"],
                   Obj(i)["wrapper"], None,
                   CallParams(Obj(i)["params"], newparams), newparams)

\* ViewResults.fetch(), called by the user
Fetch(i, outs) ==
    /\ CanRun(i)
    /\ \E out \in outs :
       \E f \in {FetchOp(Obj(i), out)} :
          Finish("fetch", i, f.obj, f.exc, None, f.n, None)

\* ViewResults.count()
Count(i, outs) ==
    /\ CanRun(i)
    /\ \E out \in Needed(Obj(i), outs) :
       \E c \in {CountOp(Obj(i), out)} :
          Finish("count", i, c.obj, c.exc, c.val, c.n, None)

\* ViewResults.__len__()
LenOf(i, outs) ==
    /\ CanRun(i)
    /\ \E out \in Needed(Obj(i), outs) :
       \E c \in {CountOp(Obj(i), out)} :
          Finish("__len__", i, c.obj, c.exc, c.val, c.n, None)

\* ViewResults.__nonzero__()
NonZero(i, outs) ==
    /\ CanRun(i)
    /\ \E out \in Needed(Obj(i), outs) :
       \E c \in {CountOp(Obj(i), out)} :
          Finish("__nonzero__", i, c.obj, c.exc,
                 IF c.exc = "" THEN B(c.val[2] > 0) ELSE None, c.n, None)

\* ViewResults.all()
All(i, outs) ==
    /\ CanRun(i)
    /\ \E out \in Needed(Obj(i), outs) :
       \E d \in {DrainOp(Obj(i), out)} :
          Finish("all", i, d.obj, d.exc, d.val, d.n, None)

\* first(): list(self)[0], or None on IndexError.  list(self) obtains the
\* generator, asks __len__ for a size hint (hint: the outcome of that count())
\* and then runs the generator to its end (d: the outcome of that).
FirstResult(hint, d) ==
    IF hint.exc # ""
    THEN [exc |-> hint.exc, obj |-> hint.obj, n |-> hint.n, val |-> None]
    ELSE [exc |-> d.exc, obj |-> d.obj, n |-> hint.n + d.n,
          val |-> IF d.exc = "" /\ Len(d.val[2]) > 0 THEN d.val[2][1]
                  ELSE None]

\* the outcomes of the invocation the generator makes after the size hint
NeededAfter(hint, outs) ==
    IF hint.exc = "" THEN Needed(hint.obj, outs) ELSE {NoOutcome}

\* the outcomes first() can have on object o
FirstOp(o, outs) ==
    UNION { UNION { { FirstResult(hint, d) :
                          d \in {DrainOp(hint.obj, out2)} } :
                    out2 \in NeededAfter(hint, outs) } :
            hint \in { CountOp(o, out1) : out1 \in Needed(o, outs) } }

First(i, outs) ==
    /\ CanRun(i)
    /\ \E f \in FirstOp(Obj(i), outs) :
          Finish("first", i, f.obj, f.exc, f.val, f.n, None)

\* one(except_all), from the outcome of len(self) and, when first() is
\* reached, the outcome of first()
OneResult(except_all, length, result) ==
    IF length.exc # ""
    THEN [exc |-> length.exc, obj |-> length.obj, n |-> length.n,
          val |-> None]
    ELSE IF length.val[2] > 1
    THEN [exc |-> "MultipleResultsFound", obj |-> length.obj,
          n |-> length.n, val |-> None]
    ELSE IF result.exc # ""
    THEN [exc |-> result.exc, obj |-> result.obj,
          n |-> length.n + result.n, val |-> None]
    ELSE IF result.val = None /\ except_all
    THEN [exc |-> "NoResultFound", obj |-> result.obj,
          n |-> length.n + result.n, val |-> None]
    ELSE [exc |-> "", obj |-> result.obj, n |-> length.n + result.n,
          val |-> result.val]

One(i, outs) ==
    /\ CanRun(i)
    /\ \E except_all \in BOOLEAN :
       \E out1 \in Needed(Obj(i), outs) :
       \E length \in {CountOp(Obj(i), out1)} :
       \E result \in (IF length.exc = "" /\ length.val[2] <= 1
                      THEN FirstOp(length.obj, outs) ELSE {length}) :
       \E r \in {OneResult(except_all, length, result)} :
          Finish("one", i, r.obj, r.exc, r.val, r.n, B(except_all))

\* the total_rows property, from the outcome of _fetch_if_needed() and, when
\* count() is reached, the outcome of count()
TotalRowsResult(f, c) ==
    IF f.exc # "" THEN [exc |-> f.exc, obj |-> f.obj, n |-> f.n, val |-> None]
    ELSE IF f.obj["_total_rows"] = None
    THEN [exc |-> c.exc, obj |-> c.obj, n |-> f.n + c.n, val |-> c.val]
    ELSE [exc |-> "", obj |-> f.obj, n |-> f.n, val |-> f.obj["_total_rows"]]

TotalRows(i, outs) ==
    /\ CanRun(i)
    /\ \E out1 \in Needed(Obj(i), outs) :
       \E f \in {FetchIfNeeded(Obj(i), out1)} :
       \E out2 \in (IF f.exc = "" /\ f.obj["_total_rows"] = None
                    THEN Needed(f.obj, outs) ELSE {NoOutcome}) :
       \E c \in {CountOp(f.obj, out2)} :
       \E t \in {TotalRowsResult(f, c)} :
          Finish("total_rows", i, t.obj, t.exc, t.val, t.n, None)

\* the offset property
Offset(i, outs) ==
    /\ CanRun(i)
    /\ \E out \in Needed(Obj(i), outs) :
       \E f \in {FetchIfNeeded(Obj(i), out)} :
          Finish("offset", i, f.obj, f.exc,
                 IF f.exc = "" THEN f.obj["_offset"] ELSE None, f.n, None)

\* iterator() as an ordinary function: it fetches before it returns
IteratorEager(i) ==
    /\ IsObj(i)
    /\ Len(iters) < MaxIters
    /\ \E out \in Needed(Obj(i), OneOutcome) :
       \E f \in {FetchIfNeeded(Obj(i), out)} :
          /\ objs' = [objs EXCEPT ![i] = f.obj]
          /\ ncalls' = ncalls + f.n
          /\ iters' = Append(iters, [obj |-> i, state |-> "running",
                                     pos |-> 0, wrapper |-> f.obj["wrapper"],
                                     linked |-> TRUE, rows |-> <<>>])
          /\ Done("iterator", 0, f.exc, None, f.n, None)
          /\ UNCHANGED <<built, extvars>>

\* iterator() / __iter__(): a generator; its body has not started to run
Iterator(i) ==
    /\ IsObj(i)
    /\ Len(iters) < MaxIters
    /\ iters' = Append(iters, [obj |-> i, state |-> "created", pos |-> 0,
                               wrapper |-> None, linked |-> FALSE,
                               rows |-> <<>>])
    /\ Done("iterator", 0, "", None, 0, None)
    /\ UNCHANGED <<objs, built, ncalls, extvars>>

\* a generator that has returned or raised: its frame is gone
Exhausted(it) ==
    [obj |-> it.obj, state |-> "done", pos |-> 0, wrapper |-> None,
     linked |-> FALSE, rows |-> <<>>]

\* one step of `for row in rows: yield wrapper(row)`
YieldOp(it, o) ==
    LET rows == IF it.linked THEN CachedRows(o).rows ELSE it.rows
        w == WrapRow(it.wrapper, rows[it.pos + 1])
        rows1 == [rows EXCEPT ![it.pos + 1] = w.row]
    IN  IF it.pos >= Len(rows)
        THEN [exc |-> "StopIteration", val |-> None, obj |-> o,
              it |-> Exhausted(it)]
        ELSE IF w.exc # ""
        THEN [exc |-> w.exc, val |-> None, obj |-> o,
              it |-> Exhausted(it)]
        ELSE [exc |-> "", val |-> w.res,
              obj |-> IF it.linked THEN WithRows(o, rows1) ELSE o,
              it |-> [it EXCEPT !.pos = @ + 1,
                                !.rows = IF it.linked THEN @ ELSE rows1]]

\* the generators that are still of use: one that has finished only ever
\* raises StopIteration again
IsAlive(it) == it.state # "done"
Alive(its) == SelectSeq(its, IsAlive)

\* the generator as its body starts: rows and wrapper are bound
Started(it, o) ==
    [it EXCEPT !.state = "running", !.linked = TRUE, !.wrapper = o["wrapper"]]

\* next(generator): the first call runs the body up to its first yield; f is
\* the outcome of its _fetch_if_needed() (of no fetch at a later call)
NextOp(it, f) ==
    LET created == it.state = "created"
        y == YieldOp(IF created THEN Started(it, f.obj) ELSE it, f.obj)
    IN  IF created /\ f.exc # ""
        THEN [exc |-> f.exc, val |-> None, obj |-> f.obj, n |-> f.n,
              it |-> Exhausted(it)]
        ELSE IF created /\ CachedRows(f.obj).exc # ""
        THEN [exc |-> CachedRows(f.obj).exc, val |-> None, obj |-> f.obj,
              n |-> f.n, it |-> Exhausted(it)]
        ELSE [exc |-> y.exc, val |-> y.val, obj |-> y.obj, n |-> f.n,
              it |-> y.it]

NextItem(k, outs) ==
    /\ k \in 1..Len(iters)
    /\ iters[k].state = "created" => CanRun(iters[k].obj)
    /\ \E i \in {iters[k].obj} :
       \E out \in (IF iters[k].state = "created" THEN Needed(Obj(i), outs)
                   ELSE {NoOutcome}) :
       \E f \in {IF iters[k].state = "created" THEN FetchIfNeeded(Obj(i), out)
                 ELSE [exc |-> "", obj |-> Obj(i), n |-> 0]} :
       \E r \in {NextOp(iters[k], f)} :
          /\ objs' = [objs EXCEPT ![i] = r.obj]
          /\ ncalls' = ncalls + r.n
          /\ iters' = Alive([j \in DOMAIN iters |->
                               IF j = k THEN r.it
                               ELSE Unlink(iters[j], i, r.n, r.exc)])
          /\ Done("next", 0, r.exc, r.val, r.n, None)
          /\ UNCHANGED <<built, extvars>>

-----------------------------------------------------------------------------
\* Specification of the building of queries: the Database methods, indexing
\* and calling, and fetches against a server with two answers.

NoOp == [op |-> "none", from |-> 0, exc |-> "", val |-> None, inv |-> 0,
         arg |-> None]

Init ==
    /\ objs = <<>>
    /\ built = <<>>
    /\ ncalls = 0
    /\ iters = <<>>
    /\ last = NoOp
    /\ fs = <<>> /\ funcs = <<>> /\ digests = <<>> /\ events = <<>>
    /\ srv = <<>> /\ couch = <<>> /\ session = <<>>

Next ==
    \/ View(ViewCalls)
    \/ TempView(PlainArgs)
    \/ Search(PlainArgs)
    \/ Documents(PlainArgs)
    \/ \E i \in 1..MaxObjs : GetItem(i, IndexKeys)
    \/ \E i \in 1..MaxObjs : Call(i, Overrides)
    \/ \E i \in 1..MaxObjs : Fetch(i, FewOutcomes)

Spec == Init /\ [][Next]_vars

\* Specification of the consumption of one query against a server that can
\* answer with any body.

InitFetch ==
    /\ \E params \in ParamSets, wrapper \in WrapperArgs,
          fetch \in {RawView, RawTempView} :
         /\ objs = << ViewResultsInit(fetch,
                                      IF fetch = RawView THEN S(<<"_all_docs">>)
                                      ELSE TempDesign,
                                      wrapper, None, params).obj >>
         /\ built = <<params>>
    /\ ncalls = 0
    /\ iters = <<>>
    /\ last = NoOp
    /\ fs = <<>> /\ funcs = <<>> /\ digests = <<>> /\ events = <<>>
    /\ srv = <<>> /\ couch = <<>> /\ session = <<>>

NextFetch ==
    \/ Fetch(1, Outcomes)
    \/ Count(1, Outcomes)
    \/ LenOf(1, Outcomes)
    \/ NonZero(1, Outcomes)
    \/ All(1, Outcomes)
    \/ First(1, Outcomes)
    \/ One(1, Outcomes)
    \/ TotalRows(1, Outcomes)
    \/ Offset(1, Outcomes)

SpecFetch == InitFetch /\ [][NextFetch]_vars

\* Specification of laziness: every way to build, derive, iterate and consume
\* a query, each with one input, against a server with one answer.  A run
\* builds one query from the database and derives the others from it.

DefaultArgs == { <<None, None, EmptyDict>> }

NextLazy ==
    \/ objs = <<>> /\ View({ <<<<"d", "/", "v">>, <<None, None, EmptyDict>>>> })
    \/ objs = <<>> /\ TempView(DefaultArgs)
    \/ objs = <<>> /\ Search(DefaultArgs)
    \/ objs = <<>> /\ Documents(DefaultArgs)
    \/ \E i \in 1..MaxObjs : GetItem(i, {I(1)})
    \/ \E i \in 1..MaxObjs : Call(i, {D([limit |-> I(2)])})
    \/ \E i \in 1..MaxObjs : Iterator(i)
    \/ \E k \in 1..MaxIters : NextItem(k, OneOutcome)
    \/ \E i \in 1..MaxObjs : Fetch(i, OneOutcome)
    \/ \E i \in 1..MaxObjs : Count(i, OneOutcome)
    \/ \E i \in 1..MaxObjs : LenOf(i, OneOutcome)
    \/ \E i \in 1..MaxObjs : NonZero(i, OneOutcome)
    \/ \E i \in 1..MaxObjs : All(i, OneOutcome)
    \/ \E i \in 1..MaxObjs : First(i, OneOutcome)
    \/ \E i \in 1..MaxObjs : One(i, OneOutcome)
    \/ \E i \in 1..MaxObjs : TotalRows(i, OneOutcome)
    \/ \E i \in 1..MaxObjs : Offset(i, OneOutcome)

SpecLazy == Init /\ [][NextLazy]_vars

-----------------------------------------------------------------------------
\* What the properties below speak of.

ConsumeOps ==
    {"next", "all", "first", "one", "count", "__len__", "__nonzero__",
     "total_rows", "offset"}

BuildOps == {"view", "temp_view", "search", "documents"}
DeriveOps == {"__getitem__", "__call__"}

\* the attributes ViewResults.__init__ gives an object, and the others it has
CoreAttrs ==
    {"_fetch", "_arg", "wrapper", "params", "_result_cache", "_total_rows",
     "_offset", "_dynamic_keys"}

DynamicFields(o) == (DOMAIN o) \ CoreAttrs

\* the response an object holds, its rows and its keys besides the three
\* fetch() reads itself
Cache(i) == objs[i]["_result_cache"]
RowsOf(body) == Get(body, "rows", L(<<>>))[2]
ExtraKeys(body) == (DOMAIN body[2]) \ {"rows", "total_rows", "offset"}
Range(xs) == { xs[k] : k \in DOMAIN xs }

-----------------------------------------------------------------------------
\* Properties of the consumption of one query (SpecFetch).

\* C1: when every response is a mapping, a consumption operation invokes the
\* executor exactly once if the query has not fetched yet, and not at all if
\* the query holds a response, whatever mapping that response is.
C1_ConsumptionFetchesOnce ==
    [][ (/\ last'.op \in ConsumeOps
         /\ Tag(Cache(1)) \in {"None", "dict"}
         /\ last'.exc \in {"", "MultipleResultsFound", "NoResultFound"}) =>
            last'.inv = (IF Cache(1) = None THEN 1 ELSE 0) ]_vars

\* C3: no operation on a query changes its parameter mapping: the parameters
\* are the same before and after every fetch.
C3_FetchKeepsParams ==
    [][ objs'[1]["params"] = objs[1]["params"] ]_vars

\* C7: the outcome of one(except_all) that fetched at most once is determined
\* by the number of rows of the response: more than one row raises
\* MultipleResultsFound, no row raises NoResultFound or returns None, and one
\* row returns its wrapped value.
C7_OneByRowCount ==
    (/\ last.op = "one"
     /\ last.inv <= 1
     /\ last.exc # "RequestFailed"
     /\ Tag(Cache(1)) = "dict") =>
        LET rows == RowsOf(Cache(1))
            except_all == last.arg[2]
        IN  IF Len(rows) > 1 THEN last.exc = "MultipleResultsFound"
            ELSE IF Len(rows) = 0
            THEN IF except_all THEN last.exc = "NoResultFound"
                 ELSE last.exc = "" /\ last.val = None
            ELSE /\ last.exc = ""
                 /\ last.val = WrapRow(objs[1]["wrapper"], rows[1]).res

\* C8: count() and len() return the number of rows of the response the query
\* holds, total_rows returns the response's total_rows when it has one and
\* the number of rows otherwise, and offset returns the response's offset or 0.
C8_AccessorsReadResponse ==
    (last.exc = "" /\ Tag(Cache(1)) = "dict") =>
        LET body == Cache(1)
            n == I(Len(RowsOf(body)))
        IN  /\ last.op \in {"count", "__len__"} => last.val = n
            /\ last.op = "total_rows" =>
                 last.val = IF Get(body, "total_rows", None) # None
                            THEN body[2]["total_rows"] ELSE n
            /\ last.op = "offset" => last.val = Get(body, "offset", I(0))

\* C9: after an operation whose fetches all succeeded, the dynamic fields of
\* the query are exactly the keys of the response it holds other than rows,
\* total_rows and offset, each with the response's value; nothing an earlier
\* response attached is left.
C9_DynamicFields ==
    (last.inv >= 1 /\ last.exc = "") =>
        /\ DynamicFields(objs[1]) = ExtraKeys(Cache(1))
        /\ \A k \in ExtraKeys(Cache(1)) : objs[1][k] = Cache(1)[2][k]
        /\ { KeyName(x) : x \in Range(objs[1]["_dynamic_keys"][2]) }
               = ExtraKeys(Cache(1))

\* a second fetch has answered with a single extra key, etag
C9_Refetched ==
    /\ last.op = "fetch" /\ last.exc = ""
    /\ ncalls = 2
    /\ DynamicFields(objs[1]) = {"etag"}
    /\ objs[1]["etag"] = I(1)

-----------------------------------------------------------------------------
\* Properties of the building of queries (Spec).

\* C2: indexing or calling a query appends a new query with the executor, the
\* path and the wrapper of the original and with no cache, and leaves every
\* query there was, the original included, as it is.
C2_DerivedIsFresh ==
    [][ (last'.op \in DeriveOps /\ last'.exc = "") =>
            LET i == last'.from
                j == last'.val[2]
            IN  /\ j = Len(objs) + 1
                /\ Len(objs') = j
                /\ objs'[j]["_fetch"] = objs[i]["_fetch"]
                /\ objs'[j]["_arg"] = objs[i]["_arg"]
                /\ objs'[j]["wrapper"] = objs[i]["wrapper"]
                /\ objs'[j]["_result_cache"] = None
                /\ \A k \in DOMAIN objs : objs'[k] = objs[k] ]_vars

\* a query derived from one that uses its own wrapper and has fetched a
\* response with extra keys
C2_DerivedFromFetched ==
    /\ last.op \in DeriveOps
    /\ objs[last.from]["wrapper"] = GetDocWrapper
    /\ Truthy(Cache(last.from))
    /\ DynamicFields(objs[last.from]) # {}
    /\ Cache(last.val[2]) = None

\* C4: calling a query built with parameters P1 with overrides P2 yields a
\* query whose parameters are P1 overridden key by key by P2, and no step
\* changes two queries at once (a fetch of one does not populate another).
C4_CallMergesBuiltParams ==
    [][ /\ last'.op = "__call__" =>
              LET P1 == built[last'.from][2]
                  P2 == last'.arg[2]
                  new == objs'[last'.val[2]]["params"][2]
              IN  /\ DOMAIN new = (DOMAIN P1) \cup (DOMAIN P2)
                  /\ \A k \in DOMAIN new :
                        new[k] = IF k \in DOMAIN P2 THEN P2[k] ELSE P1[k]
        /\ \A a, b \in DOMAIN objs :
              a # b => objs'[a] = objs[a] \/ objs'[b] = objs[b] ]_vars

\* the parameters q[key] assigns, by the kind of key
IndexSets(key) ==
    IF Tag(key) = "slice"
    THEN [k \in {x \in {"startkey", "endkey"} :
                    (IF x = "startkey" THEN key[2] ELSE key[3]) # None} |->
             IF k = "startkey" THEN key[2] ELSE key[3]]
    ELSE IF Tag(key) \in {"list", "tuple"} THEN [k \in {"keys"} |-> key]
    ELSE [k \in {"key"} |-> key]

\* C5: q[key] yields the parameters of q with startkey and endkey set to the
\* non-null bounds of a slice, or keys set to a list or tuple, or key set to
\* any other value, and every other parameter of q as it is.
C5_IndexParams ==
    [][ last'.op = "__getitem__" =>
            LET old == objs[last'.from]["params"][2]
                sets == IndexSets(last'.arg)
                new == objs'[last'.val[2]]["params"][2]
            IN  /\ DOMAIN new = (DOMAIN old) \cup (DOMAIN sets)
                /\ \A k \in DOMAIN new :
                      new[k] = IF k \in DOMAIN sets THEN sets[k] ELSE old[k] ]_vars

\* q[:1] on a query that has a startkey: the startkey is kept
C5_OpenSliceKeepsStart ==
    /\ last.op = "__getitem__"
    /\ last.arg = Slice(None, I(1))
    /\ Get(objs[last.from]["params"], "startkey", None) = I(0)
    /\ Get(objs[last.val[2]]["params"], "startkey", None) = I(0)
    /\ Get(objs[last.val[2]]["params"], "endkey", None) = I(1)

-----------------------------------------------------------------------------
\* Properties of laziness (SpecLazy).

\* C6: building a query, indexing it, calling it and obtaining an iterator
\* from it invoke no executor and populate no cache; the executor is invoked
\* only by a consumption operation or by fetch().
C6_OnlyConsumptionFetches ==
    [][ /\ last'.op \in BuildOps \cup DeriveOps \cup {"iterator"} =>
              /\ last'.inv = 0
              /\ ncalls' = ncalls
              /\ \A i \in DOMAIN objs' :
                    objs'[i]["_result_cache"] =
                        IF i \in DOMAIN objs THEN Cache(i) ELSE None
        /\ ncalls' # ncalls => last'.op \in ConsumeOps \cup {"fetch"} ]_vars

\* two queries and a generator, and no executor has been invoked
C6_NothingFetchedYet ==
    /\ last.op = "iterator"
    /\ Len(objs) = 2
    /\ Len(iters) = 1
    /\ ncalls = 0
    /\ \A i \in DOMAIN objs : Cache(i) = None

-----------------------------------------------------------------------------
\* Specification of the row wrapper of a query built with a schema: the
\* wrapper is applied to rows of every shape.

\* the rows a view can hand to the wrapper: with or without an embedded doc,
\* a value and an id
WrapRowInputs ==
    LET docs == { <<>>, [doc |-> None], [doc |-> D([_id |-> S(<<"x">>)])] }
        values ==
            { <<>> } \cup
            { [value |-> v] :
                v \in { None, I(0), I(1), L(<<I(1)>>), EmptyDict,
                        D([a |-> I(1)]), D([rev |-> S(<<"1-a">>)]),
                        D([rev |-> S(<<"1-a">>), a |-> I(1)]) } }
        ids == { <<>>, [id |-> None], [id |-> S(<<"x">>)] }
    IN  { D(doc @@ value @@ id) :
            doc \in docs, value \in values, id \in ids }

\* self.wrapper(row), as iterator(), first() and all() call it
Wrap(i, rows) ==
    /\ IsObj(i)
    /\ \E row \in rows :
         \E r \in { WrapRow(Obj(i)["wrapper"], row) } :
            Done("wrapper", 0, r.exc, r.res, 0, row)
    /\ UNCHANGED <<objs, built, ncalls, iters, extvars>>

\* a query built with a schema, wrap_doc left to its default or given
InitWrap ==
    /\ \E params \in { EmptyDict, D([wrap_doc |-> B(TRUE)]),
                       D([wrap_doc |-> B(FALSE)]),
                       D([wrap_doc |-> I(0), include_docs |-> B(TRUE)]) } :
         /\ objs = << ViewResultsInit(RawView, S(<<"_all_docs">>), None,
                                      DocSchema, params).obj >>
         /\ built = <<params>>
    /\ ncalls = 0
    /\ iters = <<>>
    /\ last = NoOp
    /\ fs = <<>> /\ funcs = <<>> /\ digests = <<>> /\ events = <<>>
    /\ srv = <<>> /\ couch = <<>> /\ session = <<>>

SpecWrap == InitWrap /\ [][Wrap(1, WrapRowInputs)]_vars

\* C11: with a schema supplied, the row wrapper returns the schema-wrapped
\* embedded doc when the row has a non-null doc and wrap_doc is truthy;
\* otherwise the raw row when the row's value is null or not a mapping;
\* otherwise, when the value is a mapping of any size, the empty one
\* included, and the row has an id, the schema-wrapped value with _id set to
\* the row id and rev renamed to _rev; otherwise the raw row.
C11_SchemaRowWrapper ==
    last.op = "wrapper" =>
        LET row == last.arg
            w == objs[1]["wrapper"]
            doc == Get(row, "doc", None)
            data == Get(row, "value", None)
            docid == Get(row, "id", None)
            d1 == Put(data, "_id", docid)
            d2 == IF Has(d1, "rev")
                  THEN Put(Pop(d1, "rev"), "_rev", d1[2]["rev"])
                  ELSE d1
        IN  /\ last.exc = ""
            /\ last.val =
                 IF doc # None /\ Truthy(w[3]) THEN SchemaWrap(w[2], doc)
                 ELSE IF data = None \/ Tag(data) # "dict" THEN row
                 ELSE IF docid # None THEN SchemaWrap(w[2], d2)
                 ELSE row

-----------------------------------------------------------------------------
\* designer/macros.py.  A text is a sequence of pieces: <<"text", s>> is text
\* without directive, <<"!code", pattern>> is a `// !code <glob>` directive up
\* to the end of its line, <<"!json", sep, fields>> is a `// !json <ref>`
\* directive, its reference split at "." or at "/", and <<"var", k, v>> is the
\* declaration `var k = <json of v>;`.  A file is its path below app_dir, split
\* at "/", whether it can be read, its content and, for a JSON file, the value
\* its content decodes to.

MaxDepth == 3   \* nested calls of run_code_macros after which the interpreter
                \* raises RecursionError
MaxPieces == 2  \* pieces in a source text

\* MacroError(Exception): an except clause for ValueError does not catch it
MacroErrorIsValueError == FALSE

\* glob.iglob(os.path.join(app_dir, pattern)): the files the pattern matches
Glob(pattern) ==
    LET Matches(f) ==
            /\ Len(f.path) = Len(pattern)
            /\ \A n \in DOMAIN pattern : pattern[n] \in {"*", f.path[n]}
    IN  SelectSeq(fs, Matches)

\* run_code_macros with one directive only: it replaces the first `!code`
\* directive and leaves the others in the text
RECURSIVE run_code_macros(_, _), rreq(_, _, _)
RECURSIVE RunCodeMacrosFirstOnly(_, _), RreqLenient(_, _, _)
RECURSIVE RreqRaisesIOError(_, _, _)
RunCodeMacrosFirstOnly(f_string, depth) ==
    IF depth > MaxDepth THEN [exc |-> "RecursionError", val |-> <<>>]
    ELSE IF f_string = <<>> THEN [exc |-> "", val |-> <<>>]
    ELSE IF Tag(Head(f_string)) = "!code"
    THEN LET h == rreq(Head(f_string)[2], 1, depth)
         IN  IF h.exc # "" THEN h
             ELSE [exc |-> "", val |-> h.val \o Tail(f_string)]
    ELSE LET t == RunCodeMacrosFirstOnly(Tail(f_string), depth)
         IN  IF t.exc # "" THEN t
             ELSE [exc |-> "", val |-> <<Head(f_string)>> \o t.val]

\* re_code.sub(rreq, f_string), `depth` calls of run_code_macros being active:
\* the matches are replaced from left to right, the first error ends the call
run_code_macros(f_string, depth) ==
    IF depth > MaxDepth THEN [exc |-> "RecursionError", val |-> <<>>]
    ELSE IF f_string = <<>> THEN [exc |-> "", val |-> <<>>]
    ELSE LET mo == Head(f_string)
             h == IF Tag(mo) = "!code" THEN rreq(mo[2], 1, depth)
                  ELSE [exc |-> "", val |-> <<mo>>]
         IN  IF h.exc # "" THEN h
             ELSE LET t == run_code_macros(Tail(f_string), depth)
                  IN  IF t.exc # "" THEN t
                      ELSE [exc |-> "", val |-> h.val \o t.val]

\* rreq without its last check: a glob that matches no file gives an empty
\* library
RreqLenient(pattern, n, depth) ==
    LET files == Glob(pattern)
    IN  IF n > Len(files) THEN [exc |-> "", val |-> <<>>]
        ELSE IF ~files[n].readable
        THEN [exc |-> "MacroError", val |-> <<"IOError", files[n].path>>]
        ELSE LET cnt == IF \E p \in DOMAIN files[n].cnt :
                               Tag(files[n].cnt[p]) = "!code"
                        THEN run_code_macros(files[n].cnt, depth + 1)
                        ELSE [exc |-> "", val |-> files[n].cnt]
             IN  IF cnt.exc # "" THEN cnt
                 ELSE LET rest == RreqLenient(pattern, n + 1, depth)
                      IN  IF rest.exc # "" THEN rest
                          ELSE [exc |-> "", val |-> cnt.val \o rest.val]

\* rreq without its except clause: the IOError of read_file leaves it
RreqRaisesIOError(pattern, n, depth) ==
    LET files == Glob(pattern)
    IN  IF files = <<>>
        THEN [exc |-> "MacroError",
              val |-> <<"Processing code: No file matching", pattern>>]
        ELSE IF n > Len(files) THEN [exc |-> "", val |-> <<>>]
        ELSE IF ~files[n].readable
        THEN [exc |-> "IOError", val |-> <<"IOError", files[n].path>>]
        ELSE LET cnt == IF \E p \in DOMAIN files[n].cnt :
                               Tag(files[n].cnt[p]) = "!code"
                        THEN run_code_macros(files[n].cnt, depth + 1)
                        ELSE [exc |-> "", val |-> files[n].cnt]
             IN  IF cnt.exc # "" THEN cnt
                 ELSE LET rest == RreqRaisesIOError(pattern, n + 1, depth)
                      IN  IF rest.exc # "" THEN rest
                          ELSE [exc |-> "", val |-> cnt.val \o rest.val]

\* rreq(mo) from the n-th file of the glob on: the library is the contents of
\* the files, each expanded when it holds "!code"; IOError becomes MacroError
rreq(pattern, n, depth) ==
    LET files == Glob(pattern)
    IN  IF files = <<>>
        THEN [exc |-> "MacroError",
              val |-> <<"Processing code: No file matching", pattern>>]
        ELSE IF n > Len(files) THEN [exc |-> "", val |-> <<>>]
        ELSE IF ~files[n].readable
        THEN [exc |-> "MacroError", val |-> <<"IOError", files[n].path>>]
        ELSE LET cnt == IF \E p \in DOMAIN files[n].cnt :
                               Tag(files[n].cnt[p]) = "!code"
                        THEN run_code_macros(files[n].cnt, depth + 1)
                        ELSE [exc |-> "", val |-> files[n].cnt]
             IN  IF cnt.exc # "" THEN cnt
                 ELSE LET rest == rreq(pattern, n + 1, depth)
                      IN  IF rest.exc # "" THEN rest
                          ELSE [exc |-> "", val |-> cnt.val \o rest.val]

\* fields[0]: {fields[1]: ... {fields[-1]: library}}, each mapping new
RECURSIVE Nest(_, _)
Nest(fields, library) ==
    IF fields = <<>> THEN library
    ELSE D(Head(fields) :> Nest(Tail(fields), library))

\* rjson(mo) for `_attachments`, from the n-th file of the glob on: a JSON
\* file is decoded, any other file is read; the content goes under the
\* segments of filename.split(app_dir)[1], every segment but the last being
\* assigned a new mapping
RECURSIVE rjson_attachments(_, _, _)
rjson_attachments(pattern, n, included) ==
    LET files == Glob(pattern)
    IN  IF files = <<>>
        THEN [exc |-> "MacroError", included |-> included,
              val |-> <<"Processing code: No file matching", pattern>>]
        ELSE IF n > Len(files)
        THEN [exc |-> "", included |-> included, val |-> <<>>]
        ELSE IF ~files[n].readable
        THEN [exc |-> "MacroError", included |-> included,
              val |-> <<"IOError", files[n].path>>]
        ELSE IF files[n].json = <<"invalid">>
        THEN [exc |-> "ValueError", included |-> included,
              val |-> <<"No JSON object could be decoded">>]
        ELSE LET library == IF files[n].json # None THEN files[n].json
                            ELSE S(files[n].cnt)
                 fields == <<"">> \o files[n].path
             IN  rjson_attachments(pattern, n + 1,
                     Put(included, Head(fields), Nest(Tail(fields), library)))

\* rjson(mo) for a dotted reference: the walk down `library` (the document)
\* and `include_to` (the accumulated mapping) along the fields
RECURSIVE rjson_fields(_, _, _)
rjson_fields(fields, library, include_to) ==
    LET field == Head(fields)
        found == CASE Tag(library) = "dict" -> Has(library, field)
                   [] Tag(library) = "str" -> field \in Range(library[2])
                   [] OTHER -> FALSE
    IN  IF Tag(library) \notin {"dict", "str"}
        THEN [exc |-> "TypeError", val |-> include_to]
        ELSE IF ~found THEN [exc |-> "", val |-> include_to]
        ELSE IF Tag(library) = "str"
        THEN [exc |-> "TypeError", val |-> include_to]
        ELSE IF Len(fields) > 1
        THEN IF Tag(include_to) # "dict"
             THEN [exc |-> "AttributeError", val |-> include_to]
             ELSE LET sub == rjson_fields(Tail(fields), library[2][field],
                                          Get(include_to, field, EmptyDict))
                  IN  [exc |-> sub.exc, val |-> Put(include_to, field, sub.val)]
        ELSE IF Tag(include_to) # "dict"
        THEN [exc |-> "TypeError", val |-> include_to]
        ELSE [exc |-> "", val |-> Put(include_to, field, library[2][field])]

\* re_json.sub(rjson, f_string): the scan that accumulates `included`
RECURSIVE rjson(_, _, _)
rjson(doc, f_string, included) ==
    IF f_string = <<>> THEN [exc |-> "", included |-> included, val |-> <<>>]
    ELSE LET mo == Head(f_string)
             h == IF Tag(mo) # "!json"
                  THEN [exc |-> "", included |-> included, val |-> <<>>]
                  ELSE IF Head(mo[3]) = "_attachments"
                  THEN rjson_attachments(mo[3], 1, included)
                  ELSE LET w == rjson_fields(mo[3], doc, included)
                       IN  [exc |-> w.exc, included |-> w.val, val |-> <<>>]
         IN  IF h.exc # "" THEN h ELSE rjson(doc, Tail(f_string), h.included)

\* the keys a mapping accumulated here can have at its top, in the order in
\* which the declarations are written
VarOrder == <<"", "a", "n", "s", "q">>

RECURSIVE rjson2(_, _)
\* re_json.sub(rjson2, f_string): every directive becomes the declarations
rjson2(f_string, varstrings) ==
    IF f_string = <<>> THEN <<>>
    ELSE (IF Tag(Head(f_string)) = "!json" THEN varstrings
          ELSE <<Head(f_string)>>) \o rjson2(Tail(f_string), varstrings)

run_json_macros(doc, f_string) ==
    LET scan == rjson(doc, f_string, EmptyDict)
        keys == KeysOf(scan.included, VarOrder)
        varstrings == [n \in DOMAIN keys |->
                          <<"var", keys[n], scan.included[2][keys[n]]>>]
    IN  IF scan.exc # "" THEN scan
        ELSE IF ~Truthy(scan.included)
        THEN [exc |-> "", included |-> scan.included, val |-> f_string]
        ELSE [exc |-> "", included |-> scan.included,
              val |-> rjson2(f_string, varstrings)]

\* md5(to_bytestring(text)).hexdigest(): equal for equal texts only
md5(text) == <<"md5", text>>

\* apply_lib without `if old_v != funcs[k]`: every function is recorded
RECURSIVE apply_lib(_, _, _, _), ApplyLibRecordAll(_, _, _, _)
ApplyLibRecordAll(doc, fn, dg, n) ==
    IF n > Len(fn) THEN [exc |-> "", val |-> <<>>, funcs |-> fn, objs |-> dg]
    ELSE LET k == fn[n][1]
             v == fn[n][2]
             code == run_code_macros(v[2], 0)
             new == IF code.exc # "" THEN code
                    ELSE run_json_macros(doc, code.val)
         IN  IF Tag(v) # "str" THEN ApplyLibRecordAll(doc, fn, dg, n + 1)
             ELSE IF new.exc = "ValueError"
                     \/ (new.exc = "MacroError" /\ MacroErrorIsValueError)
             THEN [exc |-> "MacroError",
                   val |-> <<"Error running !code or !json on function", k>>
                              \o new.val,
                   funcs |-> fn, objs |-> dg]
             ELSE IF new.exc # ""
             THEN [exc |-> new.exc, val |-> new.val, funcs |-> fn, objs |-> dg]
             ELSE ApplyLibRecordAll(doc, [fn EXCEPT ![n] = <<k, S(new.val)>>],
                                    D((md5(new.val) :> v) @@ dg[2]), n + 1)

\* apply_lib(doc, funcs, app_dir, objs) from the n-th item of funcs on
apply_lib(doc, fn, dg, n) ==
    IF n > Len(fn) THEN [exc |-> "", val |-> <<>>, funcs |-> fn, objs |-> dg]
    ELSE LET k == fn[n][1]
             v == fn[n][2]
             code == run_code_macros(v[2], 0)
             new == IF code.exc # "" THEN code
                    ELSE run_json_macros(doc, code.val)
         IN  IF Tag(v) # "str" THEN apply_lib(doc, fn, dg, n + 1)
             ELSE IF new.exc = "ValueError"
                     \/ (new.exc = "MacroError" /\ MacroErrorIsValueError)
             THEN [exc |-> "MacroError",
                   val |-> <<"Error running !code or !json on function", k>>
                              \o new.val,
                   funcs |-> fn, objs |-> dg]
             ELSE IF new.exc # ""
             THEN [exc |-> new.exc, val |-> new.val, funcs |-> fn, objs |-> dg]
             ELSE apply_lib(doc, [fn EXCEPT ![n] = <<k, S(new.val)>>],
                            IF v # S(new.val)
                            THEN D((md5(new.val) :> v) @@ dg[2]) ELSE dg,
                            n + 1)

\* Inputs: application directories, the design document, source texts and
\* function mappings.

\* app_dir: includes that nest, that miss their file, that include
\* themselves and that cannot be read; attachments as JSON and as text
AppDirs ==
    LET File(path, cnt) ==
            [path |-> path, readable |-> TRUE, cnt |-> cnt, json |-> None]
        JsonFile(path, value) ==
            [path |-> path, readable |-> TRUE, cnt |-> <<>>, json |-> value]
        a == File(<<"a.js">>, << <<"text", "hello">> >>)
        x == File(<<"lib", "x.js">>, << <<"text", "x">> >>)
        c == JsonFile(<<"_attachments", "c.json">>, D([k |-> I(1)]))
        d == File(<<"_attachments", "d.js">>, << <<"text", "d">> >>)
    IN  { << a, x, c, d >>,
          << a,
             File(<<"b.js">>, << <<"!code", <<"a.js">>>> >>),
             x,
             File(<<"lib", "y.js">>,
                  << <<"!code", <<"a.js">>>>, <<"text", "y">> >>),
             File(<<"m.js">>, << <<"!code", <<"none.js">>>> >>),
             File(<<"j.js">>,
                  << <<"!json", "/", <<"_attachments", "none">>>> >>),
             File(<<"loop.js">>,
                  << <<"text", "l">>, <<"!code", <<"loop.js">>>> >>),
             [path |-> <<"secret.js">>, readable |-> FALSE, cnt |-> <<>>,
              json |-> None],
             c,
             d,
             JsonFile(<<"_attachments", "e.json">>, <<"invalid">>) >> }

\* the design document the dotted references are resolved in
DesignDoc ==
    D([a |-> D([b |-> I(1), c |-> I(2)]), s |-> S(<<"x", "y">>), n |-> I(5)])

\* the pieces of the source texts
Pieces ==
    { <<"text", "f">> }
        \cup { <<"!code", pattern>> :
                 pattern \in { <<"a.js">>, <<"b.js">>, <<"lib", "*">>,
                               <<"none.js">>, <<"m.js">>, <<"j.js">>,
                               <<"loop.js">>, <<"secret.js">> } }
        \cup { <<"!json", ".", fields>> :
                 fields \in { <<"a">>, <<"a", "b">>, <<"a", "q">>, <<"q">>,
                              <<"s", "x">> } }
        \cup { <<"!json", "/", pattern>> :
                 pattern \in { <<"_attachments", "*">>,
                               <<"_attachments", "c.json">>,
                               <<"_attachments", "none">>,
                               <<"_attachments", "e.json">> } }

MacroTexts == UNION { [1..n -> Pieces] : n \in 0..MaxPieces }

\* funcs: a function under "map" and a function or another value under
\* "reduce"
FuncMaps ==
    { << <<"map", S(v1)>>, <<"reduce", v2>> >> :
        v1 \in MacroTexts,
        v2 \in { I(1), S(<< <<"text", "hello">> >>),
                 S(<< <<"!code", <<"b.js">>>> >>) } }

-----------------------------------------------------------------------------
\* Specification of the macros: the two expansions run on the function
\* under the first key of a function mapping, and apply_lib runs on the
\* mapping.

\* run_code_macros(funcs[k], app_dir) for the first key k
RunCodeMacros ==
    /\ Tag(funcs[1][2]) = "str"
    /\ \E r \in { run_code_macros(funcs[1][2][2], 0) } :
          Done("run_code_macros", 0, r.exc, r.val, 0, funcs[1][2])
    /\ UNCHANGED <<objs, built, ncalls, iters, extvars>>

\* run_json_macros(doc, funcs[k], app_dir) for the first key k
RunJsonMacros ==
    /\ Tag(funcs[1][2]) = "str"
    /\ \E r \in { run_json_macros(DesignDoc, funcs[1][2][2]) } :
          Done("run_json_macros", 0, r.exc,
               [text |-> r.val, included |-> r.included], 0, funcs[1][2])
    /\ UNCHANGED <<objs, built, ncalls, iters, extvars>>

\* apply_lib(doc, funcs, app_dir, objs)
ApplyLib ==
    /\ \E r \in { apply_lib(DesignDoc, funcs, digests, 1) } :
         /\ funcs' = r.funcs
         /\ digests' = r.objs
         /\ Done("apply_lib", 0, r.exc, r.val, 0, L(funcs))
    /\ UNCHANGED <<objs, built, ncalls, iters, fs, events, srv, couch, session>>

InitMacros ==
    /\ objs = <<>> /\ built = <<>> /\ ncalls = 0 /\ iters = <<>>
    /\ last = NoOp
    /\ fs \in AppDirs
    /\ funcs \in FuncMaps
    /\ digests = EmptyDict
    /\ events = <<>>
    /\ srv = <<>> /\ couch = <<>> /\ session = <<>>

NextMacros ==
    \/ RunCodeMacros
    \/ RunJsonMacros
    \/ ApplyLib

SpecMacros == InitMacros /\ [][NextMacros]_vars

-----------------------------------------------------------------------------
\* Properties of the macros (SpecMacros).

\* C12: run_code_macros replaces every `!code` directive of the text, each on
\* its own, by the contents of the files its glob matches under app_dir, in
\* the order of the glob, each content expanded in turn; the text outside the
\* directives stays as it is, and a text without `!code` directive is
\* returned as it is.
C12_CodeDirectivesReplaced ==
    last.op = "run_code_macros" =>
        LET text == last.arg[2]
            RECURSIVE Contents(_, _)
            Contents(files, n) ==
                IF n > Len(files) THEN <<>>
                ELSE run_code_macros(files[n].cnt, 1).val
                         \o Contents(files, n + 1)
            RECURSIVE Expected(_)
            Expected(t) ==
                IF t = <<>> THEN <<>>
                ELSE (IF Tag(Head(t)) = "!code"
                      THEN Contents(Glob(Head(t)[2]), 1)
                      ELSE <<Head(t)>>) \o Expected(Tail(t))
        IN  /\ last.exc = "" => last.val = Expected(text)
            /\ (\A n \in DOMAIN text : Tag(text[n]) # "!code") =>
                   last.exc = "" /\ last.val = text

\* two directives, one whose glob matches two files, one whose file includes
\* another file, have been replaced
C12_TwoDirectivesExpanded ==
    /\ last.op = "run_code_macros"
    /\ last.exc = ""
    /\ last.arg = S(<< <<"!code", <<"lib", "*">>>>, <<"!code", <<"b.js">>>> >>)
    /\ last.val = << <<"text", "x">>, <<"text", "hello">>, <<"text", "y">>,
                     <<"text", "hello">> >>

\* C13: a `!code` directive, or a `!json _attachments/...` directive, whose
\* glob matches no file under app_dir makes the expansion of a function fail
\* with MacroError, and no expanded text is stored; this holds for a
\* directive in the text and for one in a file the text includes through
\* `!code`, whatever the other directives of the text, as long as each of
\* them resolves or fails with MacroError on its own.
C13_MissingIncludeIsFatal ==
    last.op = "apply_lib" =>
        LET text == last.arg[2][1][2][2]
            Included(t) ==
                UNION { Range(Glob(t[n][2])) :
                          n \in { p \in DOMAIN t : Tag(t[p]) = "!code" } }
            RECURSIVE Closure(_, _)
            Closure(files, n) ==
                IF n = 0 THEN files
                ELSE Closure(files \cup UNION { Included(f.cnt) : f \in files },
                             n - 1)
            reached == Range(text)
                         \cup UNION { Range(f.cnt) :
                                        f \in Closure(Included(text), Len(fs)) }
            Missing(p) ==
                \/ Tag(p) = "!code" /\ Glob(p[2]) = <<>>
                \/ /\ Tag(p) = "!json"
                   /\ Head(p[3]) = "_attachments"
                   /\ Glob(p[3]) = <<>>
            Alone(p) ==
                LET code == run_code_macros(<<p>>, 0)
                IN  IF code.exc # "" THEN code.exc
                    ELSE run_json_macros(DesignDoc, code.val).exc
        IN  (/\ \E p \in reached : Missing(p)
             /\ \A n \in DOMAIN text : Alone(text[n]) \in {"", "MacroError"}) =>
                /\ last.exc = "MacroError"
                /\ funcs = last.arg[2]

\* the function includes a file that resolves and a file whose own `!json
\* _attachments` directive matches nothing, and apply_lib has raised
C13_NestedMissingAttachment ==
    /\ last.op = "apply_lib"
    /\ last.arg[2][1][2] =
           S(<< <<"!code", <<"a.js">>>>, <<"!code", <<"j.js">>>> >>)
    /\ Len(fs) > 4
    /\ last.exc = "MacroError"

\* C14: a dotted `!json` reference with a segment that the document does not
\* have raises no error and adds nothing to the accumulated mapping, neither
\* for the path nor for a prefix of it; when every `!json` reference of a text
\* is of this kind, run_json_macros returns the text as it is.
C14_UnresolvedJsonIgnored ==
    last.op = "run_json_macros" =>
        LET text == last.arg[2]
            RECURSIVE Resolves(_, _)
            Resolves(fields, library) ==
                \/ fields = <<>>
                \/ /\ Tag(library) = "dict"
                   /\ Has(library, Head(fields))
                   /\ Resolves(Tail(fields), library[2][Head(fields)])
            Unresolved(p) ==
                /\ Tag(p) = "!json"
                /\ Head(p[3]) # "_attachments"
                /\ ~Resolves(p[3], DesignDoc)
        IN  (\A n \in DOMAIN text : Tag(text[n]) = "!json" => Unresolved(text[n]))
                => /\ last.exc = ""
                   /\ last.val.included = EmptyDict
                   /\ last.val.text = text

\* C15: when a text holds several `!json` directives and a reference
\* resolves, the declarations, one `var` per top-level key of the accumulated
\* mapping, stand once in the output, where the first directive stood, and
\* every later directive is removed.
C15_DeclarationsOnce ==
    (last.op = "run_json_macros" /\ last.exc = "") =>
        LET text == last.arg[2]
            included == last.val.included
            keys == KeysOf(included, VarOrder)
            block == [n \in DOMAIN keys |->
                         <<"var", keys[n], included[2][keys[n]]>>]
            RECURSIVE Expected(_, _)
            Expected(t, first) ==
                IF t = <<>> THEN <<>>
                ELSE (IF Tag(Head(t)) # "!json" THEN <<Head(t)>>
                      ELSE IF first THEN block ELSE <<>>)
                         \o Expected(Tail(t), first /\ Tag(Head(t)) # "!json")
        IN  included # EmptyDict =>
                /\ DOMAIN included[2] = Range(keys)
                /\ last.val.text = Expected(text, TRUE)

\* C16: when the `!json _attachments/...` references of a text resolve to
\* more than one file, the accumulated mapping holds the content of every
\* matched file under the key path made of the file's path segments below
\* app_dir (the empty segment before the first "/" counted or not); a file
\* included earlier is not dropped when a later file shares a directory with
\* it.
C16_EveryAttachmentKept ==
    (last.op = "run_json_macros" /\ last.exc = "") =>
        LET text == last.arg[2]
            matched ==
                UNION { Range(Glob(text[n][3])) :
                          n \in { p \in DOMAIN text :
                                    /\ Tag(text[p]) = "!json"
                                    /\ Head(text[p][3]) = "_attachments" } }
            RECURSIVE At(_, _)
            At(mapping, path) ==
                IF path = <<>> THEN mapping
                ELSE IF Tag(mapping) = "dict" /\ Has(mapping, Head(path))
                THEN At(mapping[2][Head(path)], Tail(path))
                ELSE <<"absent">>
            Content(f) == IF f.json # None THEN f.json ELSE S(f.cnt)
        IN  \A f \in matched :
               Content(f) \in { At(last.val.included, f.path),
                                At(last.val.included, <<"">> \o f.path) }

\* C17, as stated: after apply_lib has run over a function mapping, the
\* digest table holds md5(expanded body) -> original body for a function if
\* and only if its expanded body differs from its original body, and the
\* values that are not strings are left as they are.
C17_DigestIffChanged ==
    (last.op = "apply_lib" /\ last.exc = "") =>
        \A n \in DOMAIN funcs :
            LET old == last.arg[2][n][2]
                new == funcs[n][2]
            IN  IF Tag(old) # "str" THEN new = old
                ELSE (/\ Has(digests, md5(new[2]))
                      /\ digests[2][md5(new[2])] = old) <=> new # old

\* C17, amended: apply_lib leaves the values that are not strings as they
\* are, and adds to the digest table one entry per expanded body of the
\* functions whose body the expansion changed, md5(expanded body) -> the
\* original body of the last such function in the order of the mapping; it
\* adds and changes no other entry.
C17_DigestOfLastChanged ==
    [][ (last'.op = "apply_lib" /\ last'.exc = "") =>
            LET changed == { n \in DOMAIN funcs :
                               /\ Tag(funcs[n][2]) = "str"
                               /\ funcs'[n] # funcs[n] }
                Digest(n) == md5(funcs'[n][2][2])
                Latest(h) == CHOOSE n \in changed :
                                /\ Digest(n) = h
                                /\ \A m \in changed : Digest(m) = h => m <= n
            IN  /\ \A n \in DOMAIN funcs :
                      Tag(funcs[n][2]) # "str" => funcs'[n] = funcs[n]
                /\ DOMAIN digests'[2] =
                      DOMAIN digests[2] \cup { Digest(n) : n \in changed }
                /\ \A h \in DOMAIN digests'[2] :
                      digests'[2][h] =
                          IF h \in { Digest(n) : n \in changed }
                          THEN funcs[Latest(h)][2]
                          ELSE digests[2][h] ]_vars

\* two functions with different bodies have been expanded to the same text,
\* and the digest table holds one entry, for the second of them
C17_SameExpansionTwice ==
    /\ last.op = "apply_lib"
    /\ last.exc = ""
    /\ last.arg[2][1][2] # last.arg[2][2][2]
    /\ funcs[1][2] = funcs[2][2]
    /\ funcs[1] # last.arg[2][1]
    /\ funcs[2] # last.arg[2][2]
    /\ DOMAIN digests[2] = { md5(funcs[2][2][2]) }
    /\ digests[2][md5(funcs[2][2][2])] = last.arg[2][2][2]

\* C18: whenever the `!code` phase or the `!json` phase fails while apply_lib
\* processes the function under a key, the error that leaves apply_lib is a
\* MacroError whose message names that key.
C18_ErrorNamesFunction ==
    (last.op = "apply_lib" /\ last.exc # "") =>
        /\ last.exc = "MacroError"
        /\ Len(last.val) >= 2
        /\ last.val[1] = "Error running !code or !json on function"
        /\ \E n \in DOMAIN funcs : last.val[2] = funcs[n][1]

-----------------------------------------------------------------------------
\* consumer/base.py and consumer/sync.py.  A feed is what
\* db.cloudant_database.changes(**params) turns out to hold: the changes it
\* yields, the last_seq it reports once it has ended, and whether it ends by
\* raising.  A call leaves its events: <<"changes", params>> when it asks for
\* the feed, <<"take", change>> when it takes a change from the feed,
\* <<"cb", change>> when it invokes the callback.

MaxChanges == 2   \* changes in one feed

\* check_callable(cb) passes
Callable(cb) == Tag(cb) = "func"

\* (cb, params, feed) of a call: no callback, a callback that returns, one
\* that raises, a value that is no callable; parameters with and without
\* `since` and `feed`; feeds of up to MaxChanges changes after seq 5
ConsumerCalls ==
    LET Change(n) == D([seq |-> I(5 + n), id |-> S(Rep(n))])
    IN  { << cb, params,
             [changes |-> [k \in 1..n |-> Change(k)], last_seq |-> last_seq,
              fails |-> fails] >> :
            cb \in { None, F("cb"), F("cb_raises"), I(1) },
            params \in { EmptyDict, D([since |-> I(5)]),
                         D([since |-> I(5), feed |-> S(<<"normal">>)]) },
            n \in 0..MaxChanges,
            last_seq \in { I(5), I(5 + MaxChanges) },
            fails \in BOOLEAN }

\* the end of a consumer call: its events, and what its caller sees of it
Returned(op, call, evs, exc, val) ==
    /\ events' = evs
    /\ Done(op, 0, exc, val, 0, call)
    /\ UNCHANGED <<objs, built, ncalls, iters, fs, funcs, digests, srv, couch,
                   session>>

\* fetch that answers an empty feed with the `since` of its parameters
FetchReturnsSince(calls) ==
    \E call \in calls :
       LET cb == call[1]
           feed == call[3]
           asked == << <<"changes", call[2]>> >>
           change == Head(feed.changes)
           taken == Append(asked, <<"take", change>>)
       IN  IF feed.changes = <<>>
           THEN IF feed.fails
                THEN Returned("fetch", call, asked, "FeedError", None)
                ELSE Returned("fetch", call, asked, "",
                              D([last_seq |-> Get(call[2], "since", None),
                                 results |-> L(<<>>)]))
           ELSE IF cb = None
           THEN Returned("fetch", call, taken, "",
                         D([last_seq |-> Get(change, "seq", None),
                            results |-> L(<<change>>)]))
           ELSE IF ~Callable(cb)
           THEN Returned("fetch", call, taken, "TypeError", None)
           ELSE Returned("fetch", call, Append(taken, <<"cb", change>>),
                         IF cb = F("cb_raises") THEN "CallbackError" ELSE "",
                         None)

\* ConsumerBase.fetch(cb, **params)
ConsumerFetch(calls) ==
    \E call \in calls :
       LET cb == call[1]
           feed == call[3]
           asked == << <<"changes", call[2]>> >>
           change == Head(feed.changes)
           taken == Append(asked, <<"take", change>>)
       IN  IF feed.changes = <<>>
           THEN IF feed.fails
                THEN Returned("fetch", call, asked, "FeedError", None)
                ELSE Returned("fetch", call, asked, "",
                              D([last_seq |-> feed.last_seq,
                                 results |-> L(<<>>)]))
           ELSE IF cb = None
           THEN Returned("fetch", call, taken, "",
                         D([last_seq |-> Get(change, "seq", None),
                            results |-> L(<<change>>)]))
           ELSE IF ~Callable(cb)
           THEN Returned("fetch", call, taken, "TypeError", None)
           ELSE Returned("fetch", call, Append(taken, <<"cb", change>>),
                         IF cb = F("cb_raises") THEN "CallbackError" ELSE "",
                         None)

\* wait_once that leaves a `feed` parameter of its caller as it is
WaitOnceKeepsFeed(calls) ==
    \E call \in calls :
       LET cb == call[1]
           feed == call[3]
           asked == << <<"changes",
                         IF Has(call[2], "feed") THEN call[2]
                         ELSE Put(call[2], "feed", S(<<"longpoll">>))>> >>
           change == Head(feed.changes)
           taken == Append(asked, <<"take", change>>)
       IN  IF cb # None /\ ~Callable(cb)
           THEN Returned("wait_once", call, <<>>, "TypeError", None)
           ELSE IF feed.changes = <<>>
           THEN Returned("wait_once", call, asked,
                         IF feed.fails THEN "FeedError" ELSE "", None)
           ELSE IF cb = None
           THEN Returned("wait_once", call, taken, "", change)
           ELSE Returned("wait_once", call, Append(taken, <<"cb", change>>),
                         IF cb = F("cb_raises") THEN "CallbackError" ELSE "",
                         None)

\* SyncConsumer.wait_once(cb, **params)
WaitOnce(calls) ==
    \E call \in calls :
       LET cb == call[1]
           feed == call[3]
           asked == << <<"changes", Put(call[2], "feed", S(<<"longpoll">>))>> >>
           change == Head(feed.changes)
           taken == Append(asked, <<"take", change>>)
       IN  IF cb # None /\ ~Callable(cb)
           THEN Returned("wait_once", call, <<>>, "TypeError", None)
           ELSE IF feed.changes = <<>>
           THEN Returned("wait_once", call, asked,
                         IF feed.fails THEN "FeedError" ELSE "", None)
           ELSE IF cb = None
           THEN Returned("wait_once", call, taken, "", change)
           ELSE Returned("wait_once", call, Append(taken, <<"cb", change>>),
                         IF cb = F("cb_raises") THEN "CallbackError" ELSE "",
                         None)

\* wait that goes on with the next change when the callback has raised
WaitGoesOn(calls) ==
    \E call \in calls :
       LET cb == call[1]
           feed == call[3]
           asked == << <<"changes",
                         Put(call[2], "feed", S(<<"continuous">>))>> >>
           Loop(n) == [k \in 1..(2 * n) |->
                          IF k % 2 = 1 THEN <<"take", feed.changes[(k + 1) \div 2]>>
                          ELSE <<"cb", feed.changes[k \div 2]>>]
       IN  IF ~Callable(cb)
           THEN Returned("wait", call, <<>>, "TypeError", None)
           ELSE Returned("wait", call, asked \o Loop(Len(feed.changes)),
                         IF feed.fails THEN "FeedError" ELSE "", None)

\* SyncConsumer.wait(cb, **params)
Wait(calls) ==
    \E call \in calls :
       LET cb == call[1]
           feed == call[3]
           asked == << <<"changes",
                         Put(call[2], "feed", S(<<"continuous">>))>> >>
           \* the loop over the first n changes, the callback raising or not
           Loop(n) == [k \in 1..(2 * n) |->
                          IF k % 2 = 1 THEN <<"take", feed.changes[(k + 1) \div 2]>>
                          ELSE <<"cb", feed.changes[k \div 2]>>]
       IN  IF ~Callable(cb)
           THEN Returned("wait", call, <<>>, "TypeError", None)
           ELSE IF cb = F("cb_raises") /\ feed.changes # <<>>
           THEN Returned("wait", call, asked \o Loop(1), "CallbackError", None)
           ELSE Returned("wait", call, asked \o Loop(Len(feed.changes)),
                         IF feed.fails THEN "FeedError" ELSE "", None)

\* changes.fold(db, fun, acc, since): fun is a function that counts the
\* changes, a function that returns "stop", or a value that is no callable;
\* acc starts at 0
Fold(calls) ==
    \E call \in calls, fun \in {F("count"), F("stop"), I(1)} :
       LET feed == call[3]
           since == Get(call[2], "since", I(0))
           arg == <<fun, D([since |-> since]), feed>>
           asked == << <<"changes", D([since |-> since])>> >>
           Loop(n) == [k \in 1..(2 * n) |->
                          IF k % 2 = 1 THEN <<"take", feed.changes[(k + 1) \div 2]>>
                          ELSE <<"cb", feed.changes[k \div 2]>>]
           RECURSIVE Acc(_)
           Acc(n) == IF n = 0 THEN I(0)
                     ELSE IF fun = F("stop") THEN S(<<"stop">>)
                     ELSE I(Acc(n - 1)[2] + 1)
       IN  IF ~Callable(fun)
           THEN Returned("fold", arg, <<>>, "TypeError", None)
           ELSE IF feed.fails
           THEN Returned("fold", arg, asked \o Loop(Len(feed.changes)),
                         "FeedError", None)
           ELSE Returned("fold", arg, asked \o Loop(Len(feed.changes)), "",
                         Acc(Len(feed.changes)))

InitConsumer ==
    /\ objs = <<>> /\ built = <<>> /\ ncalls = 0 /\ iters = <<>>
    /\ last = NoOp
    /\ fs = <<>> /\ funcs = <<>> /\ digests = <<>> /\ events = <<>>
    /\ srv = <<>> /\ couch = <<>> /\ session = <<>>

NextConsumer ==
    \/ ConsumerFetch(ConsumerCalls)
    \/ WaitOnce(ConsumerCalls)
    \/ Wait(ConsumerCalls)
    \/ Fold(ConsumerCalls)

SpecConsumer == InitConsumer /\ [][NextConsumer]_vars

\* Properties of the consumers (SpecConsumer).

\* C19, as stated: fetch, given no callback or a callback that returns, and a
\* feed that does not raise, has three outcomes.  When the feed yields no
\* change it returns {last_seq: the `since` it was called with, results: []}
\* and invokes no callback; when the feed yields a change and a callback is
\* given it invokes the callback once, with the first change, and returns
\* nothing; when the feed yields a change and no callback is given it returns
\* {last_seq: the seq of that change, results: [that change]}.  It takes at
\* most one change from the feed.
C19_FetchOutcomes ==
    (/\ last.op = "fetch"
     /\ last.arg[1] \in {None, F("cb")}
     /\ Has(last.arg[2], "since")
     /\ ~(last.arg[3].changes = <<>> /\ last.arg[3].fails)) =>
        LET cb == last.arg[1]
            feed == last.arg[3]
            asked == <<"changes", last.arg[2]>>
            first == feed.changes[1]
        IN  /\ last.exc = ""
            /\ IF feed.changes = <<>>
               THEN /\ last.val = D([last_seq |-> last.arg[2][2]["since"],
                                     results |-> L(<<>>)])
                    /\ events = <<asked>>
               ELSE IF cb # None
               THEN /\ last.val = None
                    /\ events = <<asked, <<"take", first>>, <<"cb", first>>>>
               ELSE /\ last.val = D([last_seq |-> first[2]["seq"],
                                     results |-> L(<<first>>)])
                    /\ events = <<asked, <<"take", first>>>>

\* C19, amended: as above, but when the feed yields no change the last_seq
\* returned is the one the feed reports after it has ended.
C19_FetchReportsFeedLastSeq ==
    (/\ last.op = "fetch"
     /\ last.arg[1] \in {None, F("cb")}
     /\ ~(last.arg[3].changes = <<>> /\ last.arg[3].fails)) =>
        LET cb == last.arg[1]
            feed == last.arg[3]
            asked == <<"changes", last.arg[2]>>
            first == feed.changes[1]
        IN  /\ last.exc = ""
            /\ IF feed.changes = <<>>
               THEN /\ last.val = D([last_seq |-> feed.last_seq,
                                     results |-> L(<<>>)])
                    /\ events = <<asked>>
               ELSE IF cb # None
               THEN /\ last.val = None
                    /\ events = <<asked, <<"take", first>>, <<"cb", first>>>>
               ELSE /\ last.val = D([last_seq |-> first[2]["seq"],
                                     results |-> L(<<first>>)])
                    /\ events = <<asked, <<"take", first>>>>

\* fetch was called with since=5 on a feed that yields nothing and reports
\* another last_seq, and has returned that one
C19_FeedMovedOn ==
    /\ last.op = "fetch"
    /\ last.arg[1] = None
    /\ last.arg[2] = D([since |-> I(5)])
    /\ last.arg[3].changes = <<>>
    /\ last.arg[3].last_seq # I(5)
    /\ last.val = D([last_seq |-> last.arg[3].last_seq, results |-> L(<<>>)])

\* C20: for fetch, wait_once and wait, a callback that is supplied and is not
\* callable makes the call fail with TypeError before it asks for the changes
\* feed: no feed is requested and no change is taken, whatever the feed
\* holds.
C20_TypeErrorBeforeRequest ==
    (/\ last.op \in {"fetch", "wait_once", "wait"}
     /\ last.arg[1] # None
     /\ ~Callable(last.arg[1])) =>
        /\ last.exc = "TypeError"
        /\ events = <<>>

\* C21: wait_once, given no callback or a callback that returns, asks for
\* the feed with feed=longpoll, whatever `feed` its caller passed, and takes
\* at most one change: with a callback it invokes the callback once, with the
\* first change, and returns nothing; without a callback it returns the first
\* change; when the feed yields nothing it returns nothing and invokes no
\* callback.
C21_WaitOnceTakesOne ==
    (/\ last.op = "wait_once"
     /\ last.arg[1] \in {None, F("cb")}
     /\ ~(last.arg[3].changes = <<>> /\ last.arg[3].fails)) =>
        LET cb == last.arg[1]
            feed == last.arg[3]
            first == feed.changes[1]
        IN  /\ last.exc = ""
            /\ events[1][1] = "changes"
            /\ DOMAIN events[1][2][2] = DOMAIN last.arg[2][2] \cup {"feed"}
            /\ \A k \in DOMAIN events[1][2][2] :
                  events[1][2][2][k] = IF k = "feed" THEN S(<<"longpoll">>)
                                       ELSE last.arg[2][2][k]
            /\ Tail(events) =
                  IF feed.changes = <<>> THEN <<>>
                  ELSE IF cb = None THEN << <<"take", first>> >>
                  ELSE << <<"take", first>>, <<"cb", first>> >>
            /\ last.val = IF feed.changes # <<>> /\ cb = None THEN first
                          ELSE None

\* wait_once was called with feed=normal and a callback on a feed of more
\* than one change: it asked for a longpoll feed and the callback ran once
C21_OverridesFeed ==
    /\ last.op = "wait_once"
    /\ last.arg[1] = F("cb")
    /\ Has(last.arg[2], "feed")
    /\ Len(last.arg[3].changes) > 1
    /\ Len(events) = 3
    /\ events[1][2][2]["feed"] = S(<<"longpoll">>)
    /\ events[3] = <<"cb", last.arg[3].changes[1]>>

\* C22: wait asks for the feed with feed=continuous and invokes the callback
\* once per change, in the order of the feed, each invocation over before
\* the next change is taken; it returns only when the feed has ended, and an
\* error raised by the feed or by the callback leaves the call as it is, no
\* callback being invoked after it.
C22_WaitCallsBackInOrder ==
    (last.op = "wait" /\ Callable(last.arg[1])) =>
        LET feed == last.arg[3]
            n == (Len(events) - 1) \div 2
        IN  /\ events[1] = <<"changes",
                             Put(last.arg[2], "feed", S(<<"continuous">>))>>
            /\ Len(events) = 1 + 2 * n
            /\ n <= Len(feed.changes)
            /\ \A k \in 1..n : /\ events[2 * k] = <<"take", feed.changes[k]>>
                               /\ events[2 * k + 1] = <<"cb", feed.changes[k]>>
            /\ last.val = None
            /\ IF last.arg[1] = F("cb_raises") /\ feed.changes # <<>>
               THEN n = 1 /\ last.exc = "CallbackError"
               ELSE /\ n = Len(feed.changes)
                    /\ last.exc = IF feed.fails THEN "FeedError" ELSE ""

\* the callback raised on the first of several changes and wait ended there
C22_CallbackErrorEndsWait ==
    /\ last.op = "wait"
    /\ last.exc = "CallbackError"
    /\ Len(last.arg[3].changes) > 1
    /\ Len(events) = 3

\* C27: when the decoded response of the executor is not a mapping, fetch()
\* fails and the response is not kept as the cache of the query: the cache
\* stays unpopulated, so the next consumption invokes the executor again.
C27_InvalidResponseNotCached ==
    \A i \in 1..Len(objs) :
       /\ Tag(objs[i]["_result_cache"]) \in {"dict", "None"}
       /\ (last.op = "fetch" /\ last.exc = "AssertionError") => NeedsFetch(objs[i])

\* C29: run_code_macros ends on every text whose include graph has no
\* cycle, with the expanded text or with MacroError; only a text that
\* reaches, through `!code` directives, a file that includes itself,
\* directly or through other files, makes the expansion run on until the
\* interpreter ends it.
C29_AcyclicIncludesEnd ==
    last.op = "run_code_macros" =>
        LET text == last.arg[2]
            Included(t) ==
                UNION { Range(Glob(t[n][2])) :
                          n \in { p \in DOMAIN t : Tag(t[p]) = "!code" } }
            RECURSIVE Closure(_, _)
            Closure(files, n) ==
                IF n = 0 THEN files
                ELSE Closure(files \cup UNION { Included(f.cnt) : f \in files },
                             n - 1)
            Reached(t) == Closure(Included(t), Len(fs))
            Cyclic == \E f \in Reached(text) : f \in Reached(f.cnt)
        IN  /\ ~Cyclic => last.exc \in {"", "MacroError"}
            /\ last.exc = "RecursionError" => Cyclic

\* a text that includes a file including another file, and a file that
\* cannot be read, has ended with MacroError
C29_NestedThenUnreadable ==
    /\ last.op = "run_code_macros"
    /\ last.arg = S(<< <<"!code", <<"b.js">>>>, <<"!code", <<"secret.js">>>> >>)
    /\ Len(fs) > 4
    /\ last.exc = "MacroError"

-----------------------------------------------------------------------------
\* Specification of one query against a server whose responses carry
\* top-level keys named like attributes of the query.

CollidingOutcomes ==
    { Body(1, <<>>),
      Body(1, [params |-> I(7)]),
      Body(0, [wrapper |-> I(8), etag |-> I(1)]),
      Body(1, [params |-> D([limit |-> I(1)]), wrapper |-> None]) }

SpecCollide ==
    InitFetch /\ [][Fetch(1, CollidingOutcomes) \/ Count(1, CollidingOutcomes)]_vars

\* C28: attaching the dynamic fields never changes the state of the query:
\* whatever the names of the extra top-level keys of its responses, after a
\* fetch and after a later fetch the query has the executor, the path and
\* the wrapper it was built with, the parameters it was built with (less
\* the `keys` its executor takes out), and its cache is unset or the
\* response.
C28_CoreStateKept ==
    \A i \in 1..Len(objs) :
       /\ {"_fetch", "_arg", "wrapper", "params", "_result_cache"}
             \subseteq DOMAIN objs[i]
       /\ objs[i]["_fetch"] \in {RawView, RawTempView}
       /\ Tag(objs[i]["_arg"]) \in {"str", "dict"}
       /\ objs[i]["wrapper"] \in {PlainRowWrapper, GetDocWrapper}
       /\ objs[i]["params"] \in {built[i], ParamsAfterCall(RawView, built[i])}
       /\ Tag(objs[i]["_result_cache"]) \in {"None", "dict", "list"}

\* C23: in fold, once the folding function has returned "stop" for a change
\* the feed stops: the function is applied to no later change of the feed.
C23_StopEndsFold ==
    (last.op = "fold" /\ last.arg[1] = F("stop")) =>
        Cardinality({ k \in DOMAIN events : events[k][1] = "cb" }) <= 1

-----------------------------------------------------------------------------
\* client.py: Server.next_uuid, Database.save_doc and Database.save_docs
\* against one CouchDB node.  A document is a mapping; the node keeps the
\* revision number of each document (the `_rev` "n-..." of the document is
\* I(n)).  The k-th uuid the node issues is a string of length k, so each
\* answer of /_uuids holds uuids that no earlier answer held.

MaxUuids == 6    \* uuids the node issues in a run
MaxSaves == 2    \* revisions a document gets in a run

Uuid(k) == S([n \in 1..k |-> "u"])

\* next_uuid that reads the last uuid of the pool and leaves it there
NextUuidPeeks(s, c, count) ==
    LET n == IF count # None THEN count[2] ELSE s.uuid_batch_count
        s1 == [s EXCEPT !._uuid_batch_count = n]
        batch == [k \in 1..n |-> Uuid(c.issued + k)]
    IN  IF s1._uuids # <<>>
        THEN [exc |-> "", val |-> s1._uuids[Len(s1._uuids)], srv |-> s1,
              couch |-> c, evs |-> << <<"uuid", s1._uuids[Len(s1._uuids)]>> >>]
        ELSE [exc |-> "", val |-> batch[n],
              srv |-> [s1 EXCEPT !._uuids = batch],
              couch |-> [c EXCEPT !.issued = @ + n],
              evs |-> << <<"GET /_uuids", I(n)>>, <<"uuid", batch[n]>> >>]

\* Server.next_uuid(count) on the Server s and the node c: what it returns,
\* the two afterwards, the request it sent and the uuid it returned
next_uuid(s, c, count) ==
    LET n == IF count # None THEN count[2] ELSE s.uuid_batch_count
        s1 == [s EXCEPT !._uuid_batch_count = n]
        batch == [k \in 1..n |-> Uuid(c.issued + k)]
    IN  IF s1._uuids # <<>>
        THEN [exc |-> "", val |-> s1._uuids[Len(s1._uuids)],
              srv |-> [s1 EXCEPT !._uuids = SubSeq(@, 1, Len(@) - 1)],
              couch |-> c, evs |-> << <<"uuid", s1._uuids[Len(s1._uuids)]>> >>]
        ELSE IF n = 0
        THEN [exc |-> "IndexError", val |-> None, srv |-> s1, couch |-> c,
              evs |-> << <<"GET /_uuids", I(0)>> >>]
        ELSE [exc |-> "", val |-> batch[n],
              srv |-> [s1 EXCEPT !._uuids = SubSeq(batch, 1, n - 1)],
              couch |-> [c EXCEPT !.issued = @ + n],
              evs |-> << <<"GET /_uuids", I(n)>>, <<"uuid", batch[n]>> >>]

\* a call on the Server or the Database that leaves them as the record r
\* says and ends as `exc` and `val` say
Saved(op, arg, r, exc, val) ==
    /\ ncalls < MaxCalls
    /\ r.couch.issued <= MaxUuids
    /\ ncalls' = ncalls + 1
    /\ srv' = r.srv
    /\ couch' = r.couch
    /\ events' = events \o r.evs
    /\ Done(op, 0, exc, val, 0, arg)
    /\ UNCHANGED <<objs, built, iters, fs, funcs, digests, session>>

\* Server.next_uuid(count), called by the user or, with count=1, by copy_doc
NextUuid(counts) ==
    \E count \in counts :
    \E r \in { next_uuid(srv, couch, count) } :
       Saved("next_uuid", count, r, r.exc, r.val)

\* the node takes the document `doc` under `id`: a document that exists is
\* replaced when `doc` carries its revision, and the write is a conflict when
\* it does not; the node names a document that comes without `_id`
PutDoc(c, doc) ==
    LET named == Has(doc, "_id")
        id == IF named THEN doc[2]["_id"] ELSE Uuid(c.issued + 1)
        c1 == IF named THEN c ELSE [c EXCEPT !.issued = @ + 1]
        rev == IF id \in DOMAIN c1.docs THEN c1.docs[id] ELSE 0
    IN  IF rev # 0 /\ Get(doc, "_rev", None) # I(rev)
        THEN [couch |-> c1, res |-> D([id |-> id, error |-> S(<<"conflict">>)])]
        ELSE [couch |-> [c1 EXCEPT !.docs = (id :> rev + 1) @@ @],
              res |-> D([id |-> id, rev |-> I(rev + 1)])]

\* save_doc that reads the revision and puts again after every conflict
SaveDocRetriesAlways(s, c, doc, force_update, batch, race) ==
    LET doc1 == doc
        docid == doc1[2]["_id"]
        first == PutDoc(c, doc1)
        \* get_rev(docid), then another writer of the document, or none
        rev == first.couch.docs[docid]
        c1 == IF race THEN [first.couch EXCEPT !.docs[docid] = rev + 1]
              ELSE first.couch
        doc2 == Put(doc1, "_rev", I(rev))
        again == PutDoc(c1, doc2)
        u == next_uuid(s, c, None)
        named == PutDoc(u.couch, Put(doc1, "_id", u.val))
        Ok(couch_, srv_, evs, puts, payload, res) ==
            [exc |-> "", srv |-> srv_, couch |-> couch_, evs |-> evs,
             puts |-> puts, res |-> res,
             doc |-> Merge(doc, Put(Put(payload, "_id", res[2]["id"]),
                                    "_rev", res[2]["rev"]))]
        Conflict(couch_, puts) ==
            [exc |-> "ResourceConflict", srv |-> s, couch |-> couch_,
             evs |-> <<>>, puts |-> puts, res |-> None, doc |-> doc]
    IN  IF Has(doc1, "_id") /\ batch
        THEN \* the node answers 202 with the id and writes later
             [exc |-> "", srv |-> s, couch |-> c, evs |-> <<>>,
              puts |-> << <<doc1, "accepted">> >>,
              res |-> D([ok |-> B(TRUE), id |-> docid]),
              doc |-> Merge(doc, Put(doc1, "_id", docid))]
        ELSE IF Has(doc1, "_id")
        THEN IF ~Has(first.res, "error")
             THEN Ok(first.couch, s, <<>>, << <<doc1, "ok">> >>, doc1, first.res)
             ELSE IF TRUE
             THEN IF ~Has(again.res, "error")
                  THEN Ok(again.couch, s, <<>>,
                          << <<doc1, "conflict">>, <<doc2, "ok">> >>,
                          doc2, again.res)
                  ELSE Conflict(again.couch,
                                << <<doc1, "conflict">>, <<doc2, "conflict">> >>)
             ELSE Conflict(first.couch, << <<doc1, "conflict">> >>)
        ELSE IF batch
        THEN [exc |-> "", srv |-> u.srv, couch |-> u.couch, evs |-> u.evs,
              puts |-> << <<doc1, "accepted">> >>,
              res |-> D([ok |-> B(TRUE), id |-> u.val]),
              doc |-> Put(doc, "_id", u.val)]
        ELSE Ok(named.couch, u.srv, u.evs, << <<doc1, "ok">> >>,
                Put(doc, "_id", u.val), named.res)

\* Database.save_doc(doc, force_update=..., batch="ok" or no batch) with doc a
\* mapping, on the Server s and the node c; `race` says whether another
\* client writes the document between get_rev and the second put.  `puts`
\* are the payloads put and how the node answered each.
save_doc(s, c, doc, force_update, batch, race) ==
    LET doc1 == doc
        docid == doc1[2]["_id"]
        first == PutDoc(c, doc1)
        \* get_rev(docid), then another writer of the document, or none
        rev == first.couch.docs[docid]
        c1 == IF race THEN [first.couch EXCEPT !.docs[docid] = rev + 1]
              ELSE first.couch
        doc2 == Put(doc1, "_rev", I(rev))
        again == PutDoc(c1, doc2)
        u == next_uuid(s, c, None)
        named == PutDoc(u.couch, Put(doc1, "_id", u.val))
        Ok(couch_, srv_, evs, puts, payload, res) ==
            [exc |-> "", srv |-> srv_, couch |-> couch_, evs |-> evs,
             puts |-> puts, res |-> res,
             doc |-> Merge(doc, Put(Put(payload, "_id", res[2]["id"]),
                                    "_rev", res[2]["rev"]))]
        Conflict(couch_, puts) ==
            [exc |-> "ResourceConflict", srv |-> s, couch |-> couch_,
             evs |-> <<>>, puts |-> puts, res |-> None, doc |-> doc]
    IN  IF Has(doc1, "_id") /\ batch
        THEN \* the node answers 202 with the id and writes later
             [exc |-> "", srv |-> s, couch |-> c, evs |-> <<>>,
              puts |-> << <<doc1, "accepted">> >>,
              res |-> D([ok |-> B(TRUE), id |-> docid]),
              doc |-> Merge(doc, Put(doc1, "_id", docid))]
        ELSE IF Has(doc1, "_id")
        THEN IF ~Has(first.res, "error")
             THEN Ok(first.couch, s, <<>>, << <<doc1, "ok">> >>, doc1, first.res)
             ELSE IF force_update
             THEN IF ~Has(again.res, "error")
                  THEN Ok(again.couch, s, <<>>,
                          << <<doc1, "conflict">>, <<doc2, "ok">> >>,
                          doc2, again.res)
                  ELSE Conflict(again.couch,
                                << <<doc1, "conflict">>, <<doc2, "conflict">> >>)
             ELSE Conflict(first.couch, << <<doc1, "conflict">> >>)
        ELSE IF batch
        THEN [exc |-> "", srv |-> u.srv, couch |-> u.couch, evs |-> u.evs,
              puts |-> << <<doc1, "accepted">> >>,
              res |-> D([ok |-> B(TRUE), id |-> u.val]),
              doc |-> Put(doc, "_id", u.val)]
        ELSE Ok(named.couch, u.srv, u.evs, << <<doc1, "ok">> >>,
                Put(doc, "_id", u.val), named.res)

SaveDoc(docs) ==
    \E doc \in docs, force_update, batch, race \in BOOLEAN :
       /\ race => force_update /\ Has(doc, "_id") /\ ~batch
       /\ \E r \in { save_doc(srv, couch, doc, force_update, batch, race) } :
             /\ \A id \in DOMAIN r.couch.docs : r.couch.docs[id] <= MaxSaves
             /\ Saved("save_doc",
                      <<doc, B(force_update), B(batch), B(race)>>,
                      r, r.exc, [res |-> r.res, doc |-> r.doc, puts |-> r.puts])

\* Database.save_docs(docs, use_uuids) with docs a list of mappings
SaveDocs(batches) ==
    \E docs \in batches, use_uuids \in BOOLEAN :
       LET NoId(k) == ~Has(docs[k], "_id")
           \* for k, g in groupby(docs1, is_id): if not k: noids = list(g)
           end == IF \E k \in DOMAIN docs : NoId(k)
                  THEN CHOOSE k \in DOMAIN docs :
                          NoId(k) /\ \A j \in (k + 1)..Len(docs) : ~NoId(j)
                  ELSE 0
           start == IF end = 0 THEN 1
                    ELSE CHOOSE k \in 1..end :
                            /\ \A j \in k..end : NoId(j)
                            /\ k > 1 => ~NoId(k - 1)
           uuid_count ==
               IF end - start + 1 > srv.uuid_batch_count
               THEN end - start + 1 ELSE srv.uuid_batch_count
           \* for doc in noids: doc['_id'] = self.server.next_uuid(...)
           RECURSIVE Name(_, _)
           Name(k, r) ==
               IF k > end THEN r
               ELSE LET u == next_uuid(r.srv, r.couch, I(uuid_count))
                    IN  Name(k + 1,
                             CHOOSE x \in
                                {[srv |-> u.srv, couch |-> u.couch,
                                  evs |-> r.evs \o u.evs,
                                  docs |-> [r.docs EXCEPT
                                              ![k] = Put(@, "_id", u.val)]]} :
                                TRUE)
           named == IF use_uuids
                    THEN Name(start, [srv |-> srv, couch |-> couch,
                                      evs |-> <<>>, docs |-> docs])
                    ELSE [srv |-> srv, couch |-> couch, evs |-> <<>>,
                          docs |-> docs]
           \* self.res.post('/_bulk_docs', payload={"docs": docs1})
           RECURSIVE Bulk(_, _)
           Bulk(k, r) ==
               IF k > Len(docs) THEN r
               ELSE LET w == PutDoc(r.couch, named.docs[k])
                    IN  Bulk(k + 1,
                             CHOOSE x \in
                                {[couch |-> w.couch,
                                  results |-> Append(r.results, w.res)]} :
                                TRUE)
           b == Bulk(1, [couch |-> named.couch, results |-> <<>>])
           errors == SelectSeq(b.results, LAMBDA res : Has(res, "error"))
           \* docs[i].update({'_id': res['id'], '_rev': res['rev']})
           after == [k \in DOMAIN docs |->
                        IF Has(b.results[k], "error") THEN docs[k]
                        ELSE Put(Put(docs[k], "_id", b.results[k][2]["id"]),
                                 "_rev", b.results[k][2]["rev"])]
       IN  /\ \A id \in DOMAIN b.couch.docs : b.couch.docs[id] <= MaxSaves
           /\ Saved("save_docs", <<L(docs), B(use_uuids)>>,
                    [srv |-> named.srv, couch |-> b.couch, evs |-> named.evs],
                    IF errors # <<>> THEN "BulkSaveError" ELSE "",
                    [payload |-> named.docs, results |-> b.results,
                     docs |-> after])

\* the batches of save_docs: documents without _id before, after, between
\* and around documents with an _id; the document "a" with the revision it
\* had first and a document "b" that is new at first
Batches ==
    LET a == D([_id |-> S(<<"a">>), _rev |-> I(1)])
        b == D([_id |-> S(<<"b">>)])
        n == D([v |-> I(1)])
    IN  { <<>>, <<n>>, <<a>>, <<n, n>>, <<n, b>>, <<b, n>>, <<a, b>>,
          <<n, b, n>>, <<b, n, a>>, <<n, n, n>> }

\* Server(uuid_batch_count=b) and a database that holds the document "a"
InitDatabase ==
    /\ objs = <<>> /\ built = <<>> /\ ncalls = 0 /\ iters = <<>>
    /\ last = NoOp
    /\ fs = <<>> /\ funcs = <<>> /\ digests = <<>> /\ events = <<>>
    /\ \E b \in 1..2 :
          srv = [_uuids |-> <<>>, uuid_batch_count |-> b,
                 _uuid_batch_count |-> b]
    /\ couch = [issued |-> 0, docs |-> (S(<<"a">>) :> 1)]
    /\ session = <<>>

SpecDatabase ==
    InitDatabase
        /\ [][\/ NextUuid({None, I(1), I(3)})
              \/ SaveDoc(UNION { Range(b) : b \in Batches }
                            \cup { D([_id |-> S(<<"a">>)]) })
              \/ SaveDocs(Batches)]_vars

\* Properties of the Server and the Database (SpecDatabase).

\* C30: over every sequence of next_uuid calls, whatever their count
\* arguments, next_uuid returns no uuid twice, returns only uuids of the
\* batches the node has issued, and asks the node for a batch only when the
\* pool of the Server is empty.
C30_UuidsFreshAndPooled ==
    LET Returned_ == { k \in DOMAIN events : events[k][1] = "uuid" }
        \* the size of the pool after the first k events, -1 once a batch
        \* was asked for with uuids in the pool, or a uuid returned without
        RECURSIVE Pool(_)
        Pool(k) ==
            IF k = 0 THEN 0
            ELSE LET p == Pool(k - 1)
                 IN  IF p < 0 THEN -1
                     ELSE IF events[k][1] = "GET /_uuids"
                     THEN (IF p = 0 THEN events[k][2][2] ELSE -1)
                     ELSE p - 1
    IN  /\ \A j, k \in Returned_ : events[j][2] = events[k][2] => j = k
        /\ \A k \in Returned_ :
              \E n \in 1..couch.issued : events[k][2] = Uuid(n)
        /\ Pool(Len(events)) = Len(srv._uuids)

\* two batches of different sizes have been asked for and a uuid of each has
\* been returned, the pool being empty in between
C30_TwoBatches ==
    /\ \E j, k \in DOMAIN events :
          /\ j < k
          /\ events[j] = <<"GET /_uuids", I(3)>>
          /\ events[k] = <<"GET /_uuids", I(1)>>
    /\ Cardinality({ k \in DOMAIN events : events[k][1] = "uuid" }) = 4

\* C24: save_docs with use_uuids=True gives an _id to every document of the
\* batch that has none, wherever the documents with and without _id stand in
\* the batch: every document of the payload sent to the node carries an _id,
\* and a document that had an _id keeps it.
C24_EveryDocumentNamed ==
    (last.op = "save_docs" /\ last.arg[2] = B(TRUE)) =>
        LET docs == last.arg[1][2]
        IN  \A k \in DOMAIN docs :
               /\ Has(last.val.payload[k], "_id")
               /\ Has(docs[k], "_id") =>
                     last.val.payload[k][2]["_id"] = docs[k][2]["_id"]

\* C25: when the put of a document that has an _id is answered with a
\* conflict, save_doc with force_update=True reads the latest revision of the
\* document and puts it once more, with that revision, and a conflict on
\* this second put leaves save_doc as ResourceConflict; with
\* force_update=False the conflict leaves save_doc at once and the document
\* of the caller is as it was, _rev included.  After a save that succeeded
\* the document of the caller carries the _id and the _rev of the answer of
\* the node (a batch-mode answer carries an id and no rev).
C25_ConflictThenOneRetry ==
    last.op = "save_doc" =>
        LET doc == last.arg[1]
            force_update == last.arg[2][2]
            batch == last.arg[3][2]
            puts == last.val.puts
            res == last.val.res
            after == last.val.doc
        IN  /\ (Has(doc, "_id") /\ puts[1][2] = "conflict") =>
                 IF force_update
                 THEN /\ Len(puts) = 2
                      /\ Has(puts[2][1], "_rev")
                      /\ Pop(puts[2][1], "_rev") =
                            (IF Has(doc, "_rev") THEN Pop(doc, "_rev") ELSE doc)
                      /\ couch.docs[doc[2]["_id"]] = puts[2][1][2]["_rev"][2] + 1
                      /\ puts[2][2] = "conflict" <=> last.exc = "ResourceConflict"
                 ELSE /\ Len(puts) = 1
                      /\ last.exc = "ResourceConflict"
                      /\ after = doc
            /\ last.exc = "" =>
                  /\ Get(after, "_id", None) = res[2]["id"]
                  /\ ~batch => Get(after, "_rev", None) = res[2]["rev"]
                  /\ \A k \in DOMAIN doc[2] \ {"_id", "_rev"} :
                        Get(after, k, None) = doc[2][k]

\* a put of the document "a" without its revision was a conflict and the
\* second put, with the revision read in between, gave the document its
\* second revision
C25_RetrySucceeded ==
    /\ last.op = "save_doc"
    /\ last.arg[1] = D([_id |-> S(<<"a">>)])
    /\ last.exc = ""
    /\ Len(last.val.puts) = 2
    /\ last.val.doc = D([_id |-> S(<<"a">>), _rev |-> I(2)])

-----------------------------------------------------------------------------
\* logging.py: install_request_logger.  ClientSession.request is the function
\* 0, the one of the HTTP library, or the function k, the wrapper `request`
\* that the k-th call of install_request_logger defined; that call's
\* real_request and whether its uninstall function has been called are kept
\* with it.

MaxInstalls == 3   \* calls of install_request_logger in a run

\* install_request_logger()
Install ==
    /\ Len(session.installs) < MaxInstalls
    /\ session' = [request |-> Len(session.installs) + 1,
                   installs |-> Append(session.installs,
                                       [real_request |-> session.request,
                                        uninstalled |-> FALSE])]
    /\ events' = <<>>
    /\ Done("install_request_logger", 0, "", I(Len(session.installs) + 1), 0,
            None)
    /\ UNCHANGED <<objs, built, ncalls, iters, fs, funcs, digests, srv, couch>>

\* the uninstall function that the k-th install_request_logger returned
Uninstall ==
    \E k \in DOMAIN session.installs :
       /\ session' = [request |-> session.installs[k].real_request,
                      installs |-> [session.installs EXCEPT
                                      ![k].uninstalled = TRUE]]
       /\ events' = <<>>
       /\ Done("uninstall", 0, "", None, 0, I(k))
       /\ UNCHANGED <<objs, built, ncalls, iters, fs, funcs, digests, srv, couch>>

\* ClientSession.request(method, url): the function 0 ends as `outcome`
\* says, a response or an error of a status, or an error without response;
\* each wrapper on the way emits its record in its finally clause
Request(outcomes) ==
    \E outcome \in outcomes :
       LET RECURSIVE Records(_)
           Records(f) ==
               IF f = 0 THEN <<>>
               ELSE Append(Records(session.installs[f].real_request),
                           <<"record", outcome[2]>>)
       IN  /\ events' = Records(session.request)
           /\ Done("request", 0, outcome[1], outcome[2], 0, None)
           /\ UNCHANGED <<objs, built, ncalls, iters, fs, funcs, digests, srv,
                          couch, session>>

InitLogging ==
    /\ objs = <<>> /\ built = <<>> /\ ncalls = 0 /\ iters = <<>>
    /\ last = NoOp
    /\ fs = <<>> /\ funcs = <<>> /\ digests = <<>> /\ events = <<>>
    /\ srv = <<>> /\ couch = <<>>
    /\ session = [request |-> 0, installs |-> <<>>]

SpecLogging ==
    InitLogging
        /\ [][\/ Install
              \/ Uninstall
              \/ Request({ <<"", I(200)>>, <<"HTTPError", I(404)>>,
                           <<"ConnectionError", None>> })]_vars

\* Properties of the request logger (SpecLogging).

\* C26: over every sequence of install_request_logger calls, calls of the
\* uninstall functions they returned and requests, a request made while no
\* request logger is installed (none was installed, or the uninstall function
\* of every installation has been called) emits no record on the
\* couchdbkit.request logger, and a request made while one installation is
\* active emits exactly one record, whether it returns or raises.
C26_OneRecordWhileInstalled ==
    last.op = "request" =>
        LET active == { k \in DOMAIN session.installs :
                          ~session.installs[k].uninstalled }
        IN  /\ active = {} => events = <<>>
            /\ Cardinality(active) = 1 => Len(events) = 1

TypeOK == Len(objs) <= MaxObjs /\ Len(iters) <= MaxIters

====
